---------------------------- MODULE Spec2Model ----------------------------
(***************************************************************************)
(* State-machine model of the o2 MCP server's indicator pipeline           *)
(* (tool o2_indicators and lib/utils/indicators).                          *)
(*                                                                         *)
(* Conventions                                                             *)
(*  - A JavaScript string that the code inspects (indicator identifiers,   *)
(*    numeric strings handed to parseInt) is a sequence of one-character   *)
(*    strings, so toLowerCase, replace, startsWith, split and parseInt are *)
(*    computed as the code computes them.                                  *)
(*  - Time is counted in units of 1000 ms: every duration of the source    *)
(*    (60 * 1000 ... 30 * 24 * 60 * 60 * 1000) is a whole number of units  *)
(*    and 30 days in ms does not fit TLC's 32-bit integers.                *)
(*  - A JavaScript value whose number is not needed is a tagged record:    *)
(*    [t |-> "number"], [t |-> "null"], [t |-> "undefined"], or an object  *)
(*    with its field names.                                                *)
(***************************************************************************)
EXTENDS Integers, Sequences, FiniteSets, TLC

VARIABLES
    pc,                     \* o2_indicators: "start", "fetching", "computing", "done"
    req,                    \* the validated request parameters
    clock,                  \* what Date.now() returns, in units of 1000 ms
    warnings,               \* const warnings: Warning[]
    query,                  \* the query of the GET /v1/bars call
    fetchCalls,             \* number of o2RequestRaw calls made
    fetched,                \* data.bars as the provider returned it
    bars,                   \* let bars (after the incomplete-bar trimming)
    idx,                    \* position of the for-of loop in normalizedIndicators
    computed,               \* number of calculateIndicator calls made
    calculatedIndicators,   \* Record<string, IndicatorResult | null>
    response,               \* what the invocation handed back to its caller
    fn                      \* pure-function harness: the call under test and its results

vars == <<pc, req, clock, warnings, query, fetchCalls, fetched, bars, idx,
          computed, calculatedIndicators, response, fn>>

pipelineVars == <<pc, req, clock, warnings, query, fetchCalls, fetched, bars,
                  idx, computed, calculatedIndicators, response>>

---------------------------------------------------------------------------
(* JavaScript string primitives over character sequences                   *)

UpperToLower ==
    "A" :> "a" @@ "B" :> "b" @@ "C" :> "c" @@ "D" :> "d" @@ "E" :> "e" @@
    "F" :> "f" @@ "G" :> "g" @@ "H" :> "h" @@ "I" :> "i" @@ "J" :> "j" @@
    "K" :> "k" @@ "L" :> "l" @@ "M" :> "m" @@ "N" :> "n" @@ "O" :> "o" @@
    "P" :> "p" @@ "Q" :> "q" @@ "R" :> "r" @@ "S" :> "s" @@ "T" :> "t" @@
    "U" :> "u" @@ "V" :> "v" @@ "W" :> "w" @@ "X" :> "x" @@ "Y" :> "y" @@
    "Z" :> "z"

DigitValue ==
    "0" :> 0 @@ "1" :> 1 @@ "2" :> 2 @@ "3" :> 3 @@ "4" :> 4 @@
    "5" :> 5 @@ "6" :> 6 @@ "7" :> 7 @@ "8" :> 8 @@ "9" :> 9

\* String.prototype.toLowerCase
toLowerCase(s) ==
    [i \in 1..Len(s) |->
        IF s[i] \in DOMAIN UpperToLower THEN UpperToLower[s[i]] ELSE s[i]]

\* s.replace(/-/g, "_")
replaceDashes(s) ==
    [i \in 1..Len(s) |-> IF s[i] = "-" THEN "_" ELSE s[i]]

\* String.prototype.startsWith
startsWith(s, prefix) ==
    /\ Len(s) >= Len(prefix)
    /\ \A i \in 1..Len(prefix) : s[i] = prefix[i]

\* Index of the first occurrence of character c in s at or after i; 0 if none.
RECURSIVE IndexOfFrom(_, _, _)
IndexOfFrom(s, c, i) ==
    IF i > Len(s) THEN 0
    ELSE IF s[i] = c THEN i
    ELSE IndexOfFrom(s, c, i + 1)

\* s.split("_")[1]: the text between the first and the second "_"
\* (to the end when there is no second one); undefined without any "_".
splitSecond(s) ==
    LET first == IndexOfFrom(s, "_", 1)
        second == IF first = 0 THEN 0 ELSE IndexOfFrom(s, "_", first + 1)
    IN  IF first = 0 THEN [undef |-> TRUE, str |-> <<>>]
        ELSE [undef |-> FALSE,
              str |-> SubSeq(s, first + 1,
                             IF second = 0 THEN Len(s) ELSE second - 1)]

RECURSIVE DigitsValue(_, _, _)
DigitsValue(s, i, acc) ==
    IF i > Len(s) \/ s[i] \notin DOMAIN DigitValue THEN acc
    ELSE DigitsValue(s, i + 1, acc * 10 + DigitValue[s[i]])

RECURSIVE SkipSpaces(_, _)
SkipSpaces(s, i) ==
    IF i <= Len(s) /\ s[i] = " " THEN SkipSpaces(s, i + 1) ELSE i

\* parseInt(string) with no radix: leading blanks, an optional sign, then the
\* longest run of decimal digits; NaN when there is no digit. (The "0x"
\* prefix is not modelled: no input of the model carries it.)
parseIntStr(s) ==
    LET i0 == SkipSpaces(s, 1)
        signed == i0 <= Len(s) /\ s[i0] \in {"-", "+"}
        i1 == IF signed THEN i0 + 1 ELSE i0
        hasDigit == i1 <= Len(s) /\ s[i1] \in DOMAIN DigitValue
        magnitude == DigitsValue(s, i1, 0)
    IN  IF ~hasDigit THEN [nan |-> TRUE, n |-> 0]
        ELSE [nan |-> FALSE,
              n |-> IF signed /\ s[i0] = "-" THEN 0 - magnitude ELSE magnitude]

\* parseInt(normalized.split('_')[1]) || dflt : NaN and 0 are falsy.
periodOr(normalized, dflt) ==
    LET seg == splitSecond(normalized)
        parsed == IF seg.undef THEN [nan |-> TRUE, n |-> 0]
                  ELSE parseIntStr(seg.str)
    IN  IF parsed.nan \/ parsed.n = 0 THEN dflt ELSE parsed.n

---------------------------------------------------------------------------
(* Identifier literals                                                     *)

\* The identifier strings the code compares against (the literals of
\* calculateIndicator, getIndicatorLookback and normalizeIndicatorName) and the
\* identifiers drawn as requests, as character sequences.
Lit ==
    [sma_ |-> <<"s", "m", "a", "_">>,
     ema_ |-> <<"e", "m", "a", "_">>,
     rsi_ |-> <<"r", "s", "i", "_">>,
     macd |-> <<"m", "a", "c", "d">>,
     macd_ |-> <<"m", "a", "c", "d", "_">>,
     bbands |-> <<"b", "b", "a", "n", "d", "s">>,
     bbands_ |-> <<"b", "b", "a", "n", "d", "s", "_">>,
     atr_ |-> <<"a", "t", "r", "_">>,
     adx_ |-> <<"a", "d", "x", "_">>,
     cci_ |-> <<"c", "c", "i", "_">>,
     mfi_ |-> <<"m", "f", "i", "_">>,
     plus_di |-> <<"p", "l", "u", "s", "_", "d", "i">>,
     minus_di |-> <<"m", "i", "n", "u", "s", "_", "d", "i">>,
     plusdi |-> <<"p", "l", "u", "s", "d", "i">>,
     minusdi |-> <<"m", "i", "n", "u", "s", "d", "i">>,
     vwap |-> <<"v", "w", "a", "p">>,
     stoch |-> <<"s", "t", "o", "c", "h">>,
     obv |-> <<"o", "b", "v">>,
     sma_20 |-> <<"s", "m", "a", "_", "2", "0">>,
     sma_50 |-> <<"s", "m", "a", "_", "5", "0">>,
     sma_5 |-> <<"s", "m", "a", "_", "5">>,
     SMAdash20 |-> <<"S", "M", "A", "-", "2", "0">>,
     ema_12 |-> <<"e", "m", "a", "_", "1", "2">>,
     ema_26 |-> <<"e", "m", "a", "_", "2", "6">>,
     ema_5 |-> <<"e", "m", "a", "_", "5">>,
     rsi_14 |-> <<"r", "s", "i", "_", "1", "4">>,
     rsi_7 |-> <<"r", "s", "i", "_", "7">>,
     macd_12_26_9 |-> <<"m", "a", "c", "d", "_", "1", "2", "_", "2", "6", "_", "9">>,
     bbands_20_2 |-> <<"b", "b", "a", "n", "d", "s", "_", "2", "0", "_", "2">>,
     atr_14 |-> <<"a", "t", "r", "_", "1", "4">>,
     atr_7 |-> <<"a", "t", "r", "_", "7">>,
     adx_14 |-> <<"a", "d", "x", "_", "1", "4">>,
     adx_7 |-> <<"a", "d", "x", "_", "7">>,
     cci_20 |-> <<"c", "c", "i", "_", "2", "0">>,
     cci_10 |-> <<"c", "c", "i", "_", "1", "0">>,
     stoch_14_3_3 |-> <<"s", "t", "o", "c", "h", "_", "1", "4", "_", "3", "_", "3">>,
     mfi_14 |-> <<"m", "f", "i", "_", "1", "4">>,
     mfi_7 |-> <<"m", "f", "i", "_", "7">>,
     foo |-> <<"f", "o", "o">>,
     rsi14 |-> <<"r", "s", "i", "1", "4">>,
     sma20 |-> <<"s", "m", "a", "2", "0">>,
     sma50 |-> <<"s", "m", "a", "5", "0">>,
     ema12 |-> <<"e", "m", "a", "1", "2">>,
     ema26 |-> <<"e", "m", "a", "2", "6">>,
     mfi14 |-> <<"m", "f", "i", "1", "4">>,
     cci20 |-> <<"c", "c", "i", "2", "0">>,
     atr14 |-> <<"a", "t", "r", "1", "4">>,
     adx14 |-> <<"a", "d", "x", "1", "4">>]

---------------------------------------------------------------------------
(* lib/utils/indicators: lookback and indicator calculation                *)

\* indicator.toLowerCase().replace(/-/g, '_')
lowerUnderscore(indicator) == replaceDashes(toLowerCase(indicator))

\* The branches of getIndicatorLookback on `normalized`.
lookbackOfNormalized(normalized) ==
    IF startsWith(normalized, Lit.sma_) THEN periodOr(normalized, 20)
    ELSE IF startsWith(normalized, Lit.ema_) THEN periodOr(normalized, 12) * 2
    ELSE IF startsWith(normalized, Lit.rsi_) THEN periodOr(normalized, 14) + 1
    ELSE IF normalized = Lit.macd \/ startsWith(normalized, Lit.macd_) THEN 35
    ELSE IF startsWith(normalized, Lit.bbands) THEN 20
    ELSE IF startsWith(normalized, Lit.atr_) THEN 14
    ELSE IF startsWith(normalized, Lit.adx_) THEN periodOr(normalized, 14) * 2
    ELSE IF normalized = Lit.plus_di \/ normalized = Lit.minus_di THEN 28
    ELSE IF normalized = Lit.vwap THEN 1
    ELSE IF startsWith(normalized, Lit.cci_) THEN 20
    ELSE IF normalized = Lit.stoch THEN 14
    ELSE IF startsWith(normalized, Lit.mfi_) THEN 14
    ELSE IF normalized = Lit.obv THEN 1
    ELSE 50

getIndicatorLookback(indicator) ==
    lookbackOfNormalized(lowerUnderscore(indicator))

\* JavaScript values whose number the model does not carry.
JsNull == [t |-> "null"]
JsUndefined == [t |-> "undefined"]
JsNumber == [t |-> "number"]
JsObject(fields) == [t |-> "object", fields |-> fields, nan |-> {}]
\* An object whose fields named in nanFields hold NaN.
JsObjectNaN(fields, nanFields) ==
    [t |-> "object", fields |-> fields, nan |-> nanFields]
\* The number num / den.
JsFraction(num, den) == [t |-> "number", num |-> num, den |-> den]

\* calculateIndicator's `return null`.
NullResult == [kind |-> "null"]

\* The number of bars TA-Lib consumes before its first output for the
\* function named in talib.execute (TA-Lib's <FUNC>_Lookback with the default
\* unstable period 0): execute({startIdx: 0, endIdx: n - 1}) returns
\* max(0, n - lookback) output points.
talibLookback(name, period) ==
    CASE name = "SMA" -> period - 1
      [] name = "EMA" -> period - 1
      [] name = "RSI" -> period
      [] name = "MACD" -> 33
      [] name = "BBANDS" -> period - 1
      [] name = "ATR" -> period
      [] name = "ADX" -> 2 * period - 1
      [] name = "PLUS_DI" -> period
      [] name = "MINUS_DI" -> period
      [] name = "CCI" -> period - 1
      [] name = "STOCH" -> 17
      [] name = "MFI" -> period
      [] name = "OBV" -> 0

talibOutputLength(name, period, n) ==
    IF n > talibLookback(name, period) THEN n - talibLookback(name, period)
    ELSE 0

Meta(requiredBars, providedBars, warmupBars) ==
    [requiredBars |-> requiredBars,
     providedBars |-> providedBars,
     warmupBars |-> warmupBars]

\* values[values.length - 1] and the `values.length > 1 ? ... : null` fields of
\* a branch whose output series has outLen points and whose value has `fields`
\* ({} for a scalar).
LastOf(outLen, fields) ==
    IF fields = {} THEN (IF outLen >= 1 THEN JsNumber ELSE JsUndefined)
    ELSE JsObject(fields)

PrevOf(outLen, fields) ==
    IF outLen > 1
    THEN (IF fields = {} THEN JsNumber ELSE JsObject(fields))
    ELSE JsNull

\* The catch block of calculateIndicator; lookback is
\* getIndicatorLookback(indicator).
CaughtResult(lookback, n) ==
    [kind |-> "error",
     value |-> JsNull,
     prev |-> JsUndefined,
     delta |-> JsUndefined,
     outLen |-> 0,
     levels |-> {},
     meta |-> Meta(lookback, n, 0),
     error |-> "talib error"]

\* What a branch returns from a series of outLen output points.
BranchResult(outLen, fields, prevFields, hasDelta, levels, meta) ==
    [kind |-> "value",
     value |-> LastOf(outLen, fields),
     prev |-> PrevOf(outLen, prevFields),
     delta |-> IF hasDelta THEN PrevOf(outLen, fields) ELSE JsUndefined,
     outLen |-> outLen,
     levels |-> levels,
     meta |-> meta,
     error |-> ""]

\* One talib-backed branch after its null check: talib.execute either throws
\* (caught by the function's catch block) or returns its output points.
TalibBranch(indicator, name, period, n, throws, fields, prevFields, hasDelta, levels, meta) ==
    IF throws THEN CaughtResult(getIndicatorLookback(indicator), n)
    ELSE BranchResult(talibOutputLength(name, period, n), fields, prevFields,
                      hasDelta, levels, meta)

NoFields == {}

\* The branches of calculateIndicator, each for its parsed period.
smaBranch(indicator, period, n, throws) ==
    IF n < period THEN NullResult
    ELSE TalibBranch(indicator, "SMA", period, n, throws, NoFields, NoFields,
                     TRUE, {}, Meta(period, n, period - 1))

emaBranch(indicator, period, n, throws) ==
    IF n < period THEN NullResult
    ELSE TalibBranch(indicator, "EMA", period, n, throws, NoFields, NoFields,
                     TRUE, {}, Meta(period * 2, n, (period * 3) \div 2))

rsiBranch(indicator, period, n, throws) ==
    IF n < period + 1 THEN NullResult
    ELSE TalibBranch(indicator, "RSI", period, n, throws, NoFields, NoFields,
                     TRUE, {<<"overbought", 70>>, <<"oversold", 30>>},
                     Meta(period + 1, n, period))

macdBranch(indicator, n, throws) ==
    IF n < 35 THEN NullResult
    ELSE TalibBranch(indicator, "MACD", 26, n, throws,
                     {"macd", "signal", "histogram"},
                     {"macd", "signal", "histogram"}, TRUE, {},
                     Meta(35, n, 33))

\* A branch's result with its value (and prev) replaced, when it has one.
withValue(result, value, prev) ==
    IF result.kind = "value"
    THEN [result EXCEPT !.value = value, !.prev = prev]
    ELSE result

\* The last 20 prices are equal: the bands coincide (upper = middle = lower,
\* the standard deviation being 0).
bandsCoincide(transformed) ==
    \A i \in (Len(transformed.close) - 19)..Len(transformed.close) :
        transformed.close[i] = transformed.close[Len(transformed.close)]

BbandsFields == {"upper", "middle", "lower", "percentB", "bandwidth"}

\* value of the bbands branch: percentB = (currentPrice - lower) /
\* (upper - lower) is 0 / 0 = NaN when the bands coincide.
bbandsValue(transformed) ==
    IF bandsCoincide(transformed) THEN JsObjectNaN(BbandsFields, {"percentB"})
    ELSE JsObject(BbandsFields)

bbandsBranch(indicator, transformed, throws) ==
    IF Len(transformed.close) < 20 THEN NullResult
    ELSE withValue(TalibBranch(indicator, "BBANDS", 20, Len(transformed.close),
                               throws, BbandsFields,
                               {"upper", "middle", "lower"}, FALSE, {},
                               Meta(20, Len(transformed.close), 19)),
                   bbandsValue(transformed),
                   PrevOf(Len(transformed.close) - 19,
                          {"upper", "middle", "lower"}))

atrBranch(indicator, period, n, throws) ==
    IF n < period THEN NullResult
    ELSE TalibBranch(indicator, "ATR", period, n, throws, NoFields, NoFields,
                     TRUE, {}, Meta(period, n, period - 1))

adxBranch(indicator, period, n, throws) ==
    IF n < period * 2 THEN NullResult
    ELSE TalibBranch(indicator, "ADX", period, n, throws, NoFields, NoFields,
                     TRUE, {<<"strong", 25>>, <<"weak", 15>>},
                     Meta(period * 2, n, period * 2 - 1))

diBranch(indicator, name, n, throws) ==
    IF n < 14 * 2 THEN NullResult
    ELSE TalibBranch(indicator, name, 14, n, throws, NoFields, NoFields,
                     TRUE, {}, Meta(14 * 2, n, 14 * 2 - 1))

\* Sum over bars first..k of (high + low + close) * volume, in units: three
\* times cumulativePV.
RECURSIVE cumulativePV3(_, _, _)
cumulativePV3(transformed, first, k) ==
    IF k < first THEN 0
    ELSE cumulativePV3(transformed, first, k - 1)
         + (transformed.high[k].units + transformed.low[k].units
            + transformed.close[k].units) * transformed.volume[k].units

\* Sum over bars first..k of volume, in units.
RECURSIVE cumulativeVolume(_, _, _)
cumulativeVolume(transformed, first, k) ==
    IF k < first THEN 0
    ELSE cumulativeVolume(transformed, first, k - 1) + transformed.volume[k].units

\* vwapValues[k - 1] for an accumulation that starts at bar `first`:
\* cumulativeVolume > 0 ? cumulativePV / cumulativeVolume : typicalPrice
vwapFrom(transformed, first, k) ==
    IF cumulativeVolume(transformed, first, k) > 0
    THEN JsFraction(cumulativePV3(transformed, first, k),
                    3 * cumulativeVolume(transformed, first, k))
    ELSE JsFraction(transformed.high[k].units + transformed.low[k].units
                    + transformed.close[k].units, 3)

\* A faulty variant of the loop: with vwapAnchor 'session' the accumulation
\* restarts at the last bar.
vwapAtSession(transformed, k) ==
    IF req.vwapAnchor = "session" THEN vwapFrom(transformed, k, k)
    ELSE vwapFrom(transformed, 1, k)

\* The loop of the vwap branch: it accumulates from i = 0, the first bar.
vwapAt(transformed, k) == vwapFrom(transformed, 1, k)

vwapPrev(transformed) ==
    IF Len(transformed.close) > 1
    THEN vwapAt(transformed, Len(transformed.close) - 1)
    ELSE JsNull

vwapMeta(n) ==
    [requiredBars |-> 1, providedBars |-> n, warmupBars |-> 0,
     anchor |-> "window"]

\* vwapValues holds one point per bar; no talib call.
vwapBranch(transformed) ==
    IF Len(transformed.close) < 1 THEN NullResult
    ELSE withValue(BranchResult(Len(transformed.close), NoFields, NoFields,
                                TRUE, {}, vwapMeta(Len(transformed.close))),
                   vwapAt(transformed, Len(transformed.close)),
                   vwapPrev(transformed))

cciBranch(indicator, period, n, throws) ==
    IF n < period THEN NullResult
    ELSE TalibBranch(indicator, "CCI", period, n, throws, NoFields, NoFields,
                     TRUE, {<<"overbought", 100>>, <<"oversold", -100>>},
                     Meta(period, n, period - 1))

stochBranch(indicator, n, throws) ==
    IF n < 14 THEN NullResult
    ELSE TalibBranch(indicator, "STOCH", 14, n, throws, {"k", "d"},
                     {"k", "d"}, TRUE,
                     {<<"overbought", 80>>, <<"oversold", 20>>},
                     Meta(14, n, 13))

mfiBranch(indicator, period, n, throws) ==
    IF n < period THEN NullResult
    ELSE TalibBranch(indicator, "MFI", period, n, throws, NoFields, NoFields,
                     TRUE, {<<"overbought", 80>>, <<"oversold", 20>>},
                     Meta(period, n, period - 1))

obvBranch(indicator, n, throws) ==
    IF n < 1 THEN NullResult
    ELSE TalibBranch(indicator, "OBV", 1, n, throws, NoFields, NoFields,
                     TRUE, {}, Meta(1, n, 0))

\* The dispatch of calculateIndicator on `normalized`.
calculateNormalized(normalized, indicator, transformed, n, throws) ==
    IF startsWith(normalized, Lit.sma_)
    THEN smaBranch(indicator, periodOr(normalized, 20), n, throws)
    ELSE IF startsWith(normalized, Lit.ema_)
    THEN emaBranch(indicator, periodOr(normalized, 12), n, throws)
    ELSE IF startsWith(normalized, Lit.rsi_)
    THEN rsiBranch(indicator, periodOr(normalized, 14), n, throws)
    ELSE IF normalized = Lit.macd \/ startsWith(normalized, Lit.macd_)
    THEN macdBranch(indicator, n, throws)
    ELSE IF normalized = Lit.bbands \/ startsWith(normalized, Lit.bbands_)
    THEN bbandsBranch(indicator, transformed, throws)
    ELSE IF startsWith(normalized, Lit.atr_)
    THEN atrBranch(indicator, periodOr(normalized, 14), n, throws)
    ELSE IF startsWith(normalized, Lit.adx_)
    THEN adxBranch(indicator, periodOr(normalized, 14), n, throws)
    ELSE IF normalized = Lit.plus_di \/ normalized = Lit.plusdi
    THEN diBranch(indicator, "PLUS_DI", n, throws)
    ELSE IF normalized = Lit.minus_di \/ normalized = Lit.minusdi
    THEN diBranch(indicator, "MINUS_DI", n, throws)
    ELSE IF normalized = Lit.vwap
    THEN vwapBranch(transformed)
    ELSE IF startsWith(normalized, Lit.cci_)
    THEN cciBranch(indicator, periodOr(normalized, 20), n, throws)
    ELSE IF normalized = Lit.stoch
    THEN stochBranch(indicator, n, throws)
    ELSE IF startsWith(normalized, Lit.mfi_)
    THEN mfiBranch(indicator, periodOr(normalized, 14), n, throws)
    ELSE IF normalized = Lit.obv
    THEN obvBranch(indicator, n, throws)
    ELSE NullResult

\* calculateIndicator(indicator, bars, options) for the transformed bars;
\* `throws` is whether talib.execute throws when this call reaches it.
calculateIndicator(indicator, transformed, throws) ==
    calculateNormalized(lowerUnderscore(indicator), indicator, transformed,
                        Len(transformed.close), throws)

---------------------------------------------------------------------------
(* JavaScript numbers that may be NaN or -Infinity                         *)

Num(n) == [k |-> "num", n |-> n]
NaN == [k |-> "nan", n |-> 0]
NegInfinity == [k |-> "-inf", n |-> 0]

\* a + c for a finite integer c
Plus(a, c) == IF a.k = "num" THEN Num(a.n + c) ELSE a

\* len < b for an array length len
LengthBelow(len, b) == b.k = "num" /\ len < b.n

SeqMax(s) == CHOOSE m \in {s[i] : i \in DOMAIN s} : \A i \in DOMAIN s : s[i] <= m

\* Math.max(...s): -Infinity for no argument
MathMax(s) == IF Len(s) = 0 THEN NegInfinity ELSE Num(SeqMax(s))

\* An optional request field that is a number or a string (z.union).
NotGiven == [given |-> FALSE, isString |-> FALSE, n |-> 0, s |-> <<>>]
GivenNumber(n) == [given |-> TRUE, isString |-> FALSE, n |-> n, s |-> <<>>]
GivenString(s) == [given |-> TRUE, isString |-> TRUE, n |-> 0, s |-> s]

\* typeof p === "string" ? parseInt(p) : p
toTimestamp(p) ==
    IF p.isString
    THEN (LET r == parseIntStr(p.s) IN IF r.nan THEN NaN ELSE Num(r.n))
    ELSE Num(p.n)

---------------------------------------------------------------------------
(* tools/o2_indicators                                                     *)

\* requestedIndicators.length > 20
MaxIndicators == 20

\* A faulty variant of the limit test: off by one.
tooManyIndicatorsOffByOne(requestedIndicators) ==
    Len(requestedIndicators) > MaxIndicators + 1

tooManyIndicators(requestedIndicators) ==
    Len(requestedIndicators) > MaxIndicators

\* const aliases of normalizeIndicatorName
aliases ==
    Lit.rsi14 :> Lit.rsi_14 @@ Lit.sma20 :> Lit.sma_20 @@ Lit.sma50 :> Lit.sma_50 @@
    Lit.ema12 :> Lit.ema_12 @@ Lit.ema26 :> Lit.ema_26 @@ Lit.mfi14 :> Lit.mfi_14 @@
    Lit.cci20 :> Lit.cci_20 @@ Lit.atr14 :> Lit.atr_14 @@ Lit.adx14 :> Lit.adx_14 @@
    Lit.plusdi :> Lit.plus_di @@ Lit.minusdi :> Lit.minus_di @@
    Lit.macd_12_26_9 :> Lit.macd @@ Lit.bbands_20_2 :> Lit.bbands @@
    Lit.stoch_14_3_3 :> Lit.stoch

normalizeIndicatorName(name) ==
    LET lower == lowerUnderscore(name) IN
    IF lower \in DOMAIN aliases THEN aliases[lower] ELSE lower

normalizedIndicators ==
    [i \in 1..Len(req.indicators) |-> normalizeIndicatorName(req.indicators[i])]

\* Math.max(...normalizedIndicators.map(getIndicatorLookback))
maxLookback ==
    MathMax([i \in 1..Len(req.indicators) |->
                getIndicatorLookback(normalizedIndicators[i])])

\* const periods of normalizePeriod, in units of 1000 ms
periods ==
    "1h" :> 60 * 60 @@ "24h" :> 24 * 60 * 60 @@ "7d" :> 7 * 24 * 60 * 60 @@
    "30d" :> 30 * 24 * 60 * 60

periodDuration(period) ==
    IF period \in DOMAIN periods THEN periods[period] ELSE periods["24h"]

normalizePeriod(period, now) ==
    [from |-> Num(now - periodDuration(period)), to |-> Num(now)]

\* Lines 326-336: the window before asOf is applied.
resolveWindow(fromParam, toParam, period, now) ==
    IF fromParam.given /\ toParam.given
    THEN [from |-> toTimestamp(fromParam), to |-> toTimestamp(toParam)]
    ELSE normalizePeriod(period, now)

\* Lines 338-345: asOf replaces `to`.
applyAsOf(window, asOf) ==
    IF asOf.given THEN [window EXCEPT !.to = toTimestamp(asOf)] ELSE window

asOfWarnings(asOf) ==
    IF asOf.given
    THEN <<[code |-> "AS_OF_TIMESTAMP", asOf |-> toTimestamp(asOf)]>>
    ELSE <<>>

\* windowSize = 100 when the request gives none
windowSizeOf(r) == IF r.windowSize.given THEN r.windowSize.n ELSE 100

\* mode === "window" ? maxLookback + windowSize : maxLookback + 50
requiredBars(r, lookback) ==
    IF r.mode = "window" THEN Plus(lookback, windowSizeOf(r))
    ELSE Plus(lookback, 50)

\* const resolutionMs, in units of 1000 ms
resolutionMs ==
    "1m" :> 60 @@ "5m" :> 5 * 60 @@ "15m" :> 15 * 60 @@ "30m" :> 30 * 60 @@
    "1h" :> 60 * 60 @@ "4h" :> 4 * 60 * 60 @@ "1d" :> 24 * 60 * 60 @@
    "1w" :> 7 * 24 * 60 * 60

barDurationOf(resolution) ==
    IF resolution \in DOMAIN resolutionMs THEN resolutionMs[resolution]
    ELSE resolutionMs["5m"]

\* A faulty variant of the completeness test: a bar exactly one duration old
\* counts as incomplete.
isCompleteStrict(now, lastTimestamp, barDuration) ==
    now - lastTimestamp > barDuration

\* const isComplete = now - lastBar.timestamp >= barDuration
isComplete(now, lastTimestamp, barDuration) ==
    now - lastTimestamp >= barDuration

\* Lines 383-407: whether the trailing bar is dropped.
dropsLastBar(r, data, now) ==
    /\ ~r.includeIncompleteLastBar
    /\ Len(data) > 0
    /\ ~isComplete(now, data[Len(data)].timestamp, barDurationOf(r.resolution))

\* bars.slice(0, -1), or bars unchanged
trimBars(r, data, now) ==
    IF dropsLastBar(r, data, now) THEN SubSeq(data, 1, Len(data) - 1) ELSE data

trimWarnings(r, data, now) ==
    IF dropsLastBar(r, data, now)
    THEN <<[code |-> "INCOMPLETE_LAST_BAR",
            timestamp |-> Num(data[Len(data)].timestamp)]>>
    ELSE <<>>

\* A fixed-point decimal string of a raw bar: the digits of `units`, or text
\* that new Decimal() rejects.
Raw(units) == [parseable |-> TRUE, units |-> units]
Unparseable == [parseable |-> FALSE, units |-> 0]

RawFields == {"open", "high", "low", "close", "buy_volume", "sell_volume"}

\* new Decimal(v).div(new Decimal(10).pow(decimals)).toNumber(): the number
\* units * 10^-decimals
scaleDown(v, decimals) == [units |-> v.units, decimals |-> decimals]

\* transformBarsToArrays throws (DecimalError) on a field that is no decimal.
transformThrows(data) ==
    \E i \in 1..Len(data) : \E f \in RawFields : ~data[i][f].parseable

transformBarsToArrays(data) ==
    [open |-> [i \in 1..Len(data) |-> scaleDown(data[i].open, 9)],
     high |-> [i \in 1..Len(data) |-> scaleDown(data[i].high, 9)],
     low |-> [i \in 1..Len(data) |-> scaleDown(data[i].low, 9)],
     close |-> [i \in 1..Len(data) |-> scaleDown(data[i].close, 9)],
     volume |-> [i \in 1..Len(data) |->
                    scaleDown(Raw(data[i].buy_volume.units
                                  + data[i].sell_volume.units), 9)],
     timestamp |-> [i \in 1..Len(data) |-> data[i].timestamp]]

\* transformedBars.close[transformedBars.close.length - 1]
currentPriceOf(data) ==
    IF Len(data) = 0 THEN JsUndefined
    ELSE [t |-> "number", v |-> transformBarsToArrays(data).close[Len(data)]]

\* array.slice(-windowSize) for an integer windowSize: a negative start
\* counts from the end, -0 is 0, a positive start from the front.
sliceStart(len, windowSize) ==
    IF windowSize > 0
    THEN (IF windowSize >= len THEN 0 ELSE len - windowSize)
    ELSE (IF 0 - windowSize >= len THEN len ELSE 0 - windowSize)

sliceFromEnd(s, windowSize) ==
    SubSeq(s, sliceStart(Len(s), windowSize) + 1, Len(s))

\* What an invocation hands back: a tool response carrying `payload`, or an
\* exception that leaves the function.
Pending == [state |-> "pending"]
Returned(payload) == [state |-> "returned", payload |-> payload]
Escaped(message) == [state |-> "threw", message |-> message]

\* A faulty variant of the catch block: the error is thrown again.
catchBlockRethrows(message) == Escaped(message)

\* The catch block of o2_indicators (lines 530-535) for an error thrown
\* inside its try block.
catchBlock(message) == Returned([ok |-> FALSE, error |-> message])

\* The placeholder stored for a null result when not strict (lines 440-448).
insufficientEntry(indicator, n) ==
    [kind |-> "error",
     value |-> JsNull,
     prev |-> JsUndefined,
     delta |-> JsUndefined,
     outLen |-> 0,
     levels |-> {},
     meta |-> Meta(getIndicatorLookback(indicator), n, 0),
     error |-> "INSUFFICIENT_BARS"]

\* Lines 433-459: the strict-mode decision on one result; "" to continue.
strictFailure(r, result) ==
    IF ~r.strict THEN ""
    ELSE IF result.kind = "null" THEN "Failed to calculate indicator. Insufficient data."
    ELSE IF result.error # "" THEN "Failed to calculate indicator. Error"
    ELSE ""

\* Lines 466-475: one entry of formattedIndicators.
formatIndicator(result) ==
    IF result.error # ""
    THEN [value |-> JsNull, prev |-> JsUndefined, delta |-> JsUndefined,
          error |-> result.error, levels |-> result.levels, meta |-> result.meta]
    ELSE [value |-> result.value, prev |-> result.prev, delta |-> result.delta,
          error |-> "", levels |-> result.levels, meta |-> result.meta]

\* Lines 506-512: one entry of windowIndicators.
windowValue(result) ==
    IF result.value # JsNull /\ result.error = "" THEN result.value ELSE JsNull

snapshotOutput ==
    [mode |-> "snapshot",
     resolution |-> req.resolution,
     from |-> query.from,
     to |-> query.to,
     bars |-> Len(bars),
     asOf |-> query.to,
     currentPrice |-> currentPriceOf(bars),
     currentPriceSource |-> "last_close",
     warnings |-> warnings,
     indicators |-> [k \in DOMAIN calculatedIndicators |->
                        formatIndicator(calculatedIndicators[k])],
     derived |-> [t |-> "object"]]

windowFields(timestamps) ==
    [mode |-> "window",
     resolution |-> req.resolution,
     from |-> query.from,
     to |-> query.to,
     bars |-> Len(timestamps),
     warnings |-> warnings,
     timestamps |-> timestamps,
     indicators |-> [k \in DOMAIN calculatedIndicators |->
                        windowValue(calculatedIndicators[k])]]

windowOutput ==
    windowFields(sliceFromEnd(transformBarsToArrays(bars).timestamp,
                              windowSizeOf(req)))

---------------------------------------------------------------------------
(* The Market Data Provider and the requests drawn                         *)

\* First reading of the clock (seconds since the epoch).
StartClock == 1700000000
\* Largest advance of the clock while the bar fetch is awaited.
MaxDelay == 1
\* Longest list of indicators drawn in every order from CoreIdentifiers.
MaxListLen == 2

CoreIdentifiers == {Lit.vwap, Lit.sma_20, Lit.ema_12}

PipelineIdentifiers ==
    {Lit.sma_20, Lit.SMAdash20, Lit.sma_5, Lit.ema_12, Lit.rsi14, Lit.macd_12_26_9, Lit.bbands,
     Lit.atr_14, Lit.atr_7, Lit.adx_14, Lit.plusdi, Lit.minus_di, Lit.vwap, Lit.cci_10,
     Lit.stoch, Lit.mfi_14, Lit.obv, Lit.foo}

Repeat(x, n) == [i \in 1..n |-> x]

IndicatorLists ==
    UNION {[1..n -> CoreIdentifiers] : n \in 0..MaxListLen}
    \cup {<<id>> : id \in PipelineIdentifiers}
    \cup {Repeat(Lit.vwap, n) : n \in {MaxIndicators, MaxIndicators + 1}}

Resolutions == {"1m", "5m", "15m", "30m", "1h", "4h", "1d", "1w"}

WindowSizes == {NotGiven, GivenNumber(0), GivenNumber(2), GivenNumber(-1)}

TimestampParams ==
    {NotGiven, GivenNumber(1000), GivenString(<<"2", "0", "0", "0">>)}

Request(indicators, resolution, mode, period, from, to, windowSize, strict, asOf, include) ==
    [indicators |-> indicators, resolution |-> resolution, mode |-> mode,
     period |-> period, from |-> from, to |-> to, windowSize |-> windowSize,
     strict |-> strict, asOf |-> asOf, includeIncompleteLastBar |-> include,
     vwapAnchor |-> "window"]

\* Requests that vary what is computed, with the default time window.
ComputeRequests ==
    {Request(l, "5m", "snapshot", "24h", NotGiven, NotGiven, NotGiven, s,
             NotGiven, FALSE) :
        l \in IndicatorLists, s \in BOOLEAN}
    \cup
    {Request(l, "5m", "window", "24h", NotGiven, NotGiven, w, s, NotGiven, FALSE) :
        l \in IndicatorLists, w \in WindowSizes, s \in BOOLEAN}
    \cup
    {Request(<<id>>, "5m", m, "24h", NotGiven, NotGiven, NotGiven, s, NotGiven,
             TRUE) :
        id \in CoreIdentifiers, m \in {"snapshot", "window"}, s \in BOOLEAN}

\* Requests that vary the time window and the resolution, for one indicator.
WindowRequests ==
    {Request(<<Lit.vwap>>, "5m", "snapshot", p, f, t, NotGiven, FALSE, a, FALSE) :
        p \in DOMAIN periods, f \in TimestampParams, t \in TimestampParams,
        a \in {NotGiven, GivenString(<<"1", "5", "0", "0">>)}}
    \cup
    {Request(<<Lit.vwap>>, r, "snapshot", "24h", NotGiven, NotGiven, NotGiven,
             FALSE, NotGiven, inc) :
        r \in Resolutions, inc \in BOOLEAN}

\* Requests for vwap that set the vwapAnchor option.
AnchorRequests ==
    {[Request(<<Lit.vwap>>, "5m", m, "24h", NotGiven, NotGiven, NotGiven, s,
              NotGiven, inc) EXCEPT !.vwapAnchor = a] :
        m \in {"snapshot", "window"}, s \in BOOLEAN, inc \in BOOLEAN,
        a \in {"window", "session"}}

Requests == ComputeRequests \cup WindowRequests \cup AnchorRequests

\* Numbers of bars the provider returns.
BarCounts == {0, 1, 3, 14, 21, 36, 51}

\* Bars of the provider: n bars one bar duration apart, ending at lastTimestamp.
\* "dup": the last two bars carry the same timestamp (the order is still
\* non-decreasing); "bad": the first bar's close is no decimal string;
\* "flat": every bar closes at the same price.
providerBars(n, lastTimestamp, dur, variant) ==
    [i \in 1..n |->
        [timestamp |-> IF variant = "dup" /\ i = n - 1 THEN lastTimestamp
                       ELSE lastTimestamp - (n - i) * dur,
         open |-> Raw(1000 + i),
         high |-> Raw(1010 + i),
         low |-> Raw(990 + i),
         close |-> IF variant = "bad" /\ i = 1 THEN Unparseable
                   ELSE IF variant = "flat" THEN Raw(1005)
                   ELSE Raw(1005 + i),
         buy_volume |-> Raw(5),
         sell_volume |-> Raw(i)]]

\* What the awaited o2RequestRaw call can produce. The last bar opened
\* `age` before the first reading of the clock: one unit less than a bar
\* duration, or exactly one.
ProviderOutcomes(dur) ==
    {[kind |-> "throw"], [kind |-> "notOk"], [kind |-> "nullData"],
     [kind |-> "textData"], [kind |-> "noBars"]}
    \cup {[kind |-> "bars",
           bars |-> providerBars(n, StartClock - age, dur, "plain")] :
            n \in BarCounts, age \in {dur - 1, dur}}
    \cup {[kind |-> "bars",
           bars |-> providerBars(n, StartClock - dur, dur, v)] :
            n \in {3, 21}, v \in {"dup", "bad", "flat"}}

---------------------------------------------------------------------------
(* The invocation of o2_indicators, step by step                           *)

\* The pure-function harness when no direct call is under test.
FnIdle == [op |-> "none"]

PipelineIdle ==
    /\ pc = "idle"
    /\ req = [indicators |-> <<>>]
    /\ clock = StartClock
    /\ warnings = <<>>
    /\ query = [sent |-> FALSE]
    /\ fetchCalls = 0
    /\ fetched = <<>>
    /\ bars = <<>>
    /\ idx = 0
    /\ computed = 0
    /\ calculatedIndicators = <<>>
    /\ response = Pending

Init ==
    /\ pc = "start"
    /\ req \in Requests
    /\ clock = StartClock
    /\ warnings = <<>>
    /\ query = [sent |-> FALSE]
    /\ fetchCalls = 0
    /\ fetched = <<>>
    /\ bars = <<>>
    /\ idx = 0
    /\ computed = 0
    /\ calculatedIndicators = <<>>
    /\ response = Pending
    /\ fn = FnIdle

\* Lines 311-362: from entry to the awaited bar fetch.
Call ==
    /\ pc = "start"
    /\ IF tooManyIndicators(req.indicators)
       THEN /\ response' = Returned([ok |-> FALSE,
                                     error |-> "Too many indicators requested. Maximum is 20."])
            /\ pc' = "done"
            /\ UNCHANGED <<warnings, query, fetchCalls>>
       ELSE /\ \E window \in {applyAsOf(resolveWindow(req.from, req.to,
                                                        req.period, clock),
                                          req.asOf)} :
                  query' = [sent |-> TRUE,
                            resolution |-> req.resolution,
                            count_back |-> requiredBars(req, maxLookback),
                            from |-> window.from,
                            to |-> window.to]
            /\ warnings' = asOfWarnings(req.asOf)
            /\ fetchCalls' = fetchCalls + 1
            /\ pc' = "fetching"
            /\ UNCHANGED response
    /\ UNCHANGED <<req, clock, fetched, bars, idx, computed,
                   calculatedIndicators, fn>>

\* A segment's effect: the response (Pending to go on) and the variables set.
Step(resp, kept, data, warns) ==
    [response |-> resp, bars |-> kept, fetched |-> data, warnings |-> warns]

\* Line 422: transformBarsToArrays, inside the try block.
afterSufficiency(kept, data, warns) ==
    IF transformThrows(kept)
    THEN Step(catchBlock("[DecimalError] Invalid argument"), kept, data, warns)
    ELSE Step(Pending, kept, data, warns)

insufficientWarning(r, lookback, available) ==
    IF r.strict THEN <<>>
    ELSE <<[code |-> "INSUFFICIENT_BARS", required |-> lookback,
            available |-> available]>>

\* Lines 409-420: bars.length < maxLookback.
afterTrim(r, kept, data, warns, lookback) ==
    IF LengthBelow(Len(kept), lookback)
    THEN (IF r.strict
          THEN Step(Returned([ok |-> FALSE, error |-> "Insufficient bars"]),
                    kept, data, warns)
          ELSE afterSufficiency(kept, data,
                                warns \o insufficientWarning(r, lookback, Len(kept))))
    ELSE afterSufficiency(kept, data, warns)

\* A faulty variant of the handling of the fetch: a failed or empty fetch is
\* passed over and the computation goes on without bars.
afterFetchLenient(r, outcome, now, lookback) ==
    IF outcome.kind # "bars" \/ Len(outcome.bars) = 0
    THEN Step(Pending, <<>>, <<>>, <<>>)
    ELSE afterTrim(r, trimBars(r, outcome.bars, now), outcome.bars,
                   trimWarnings(r, outcome.bars, now), lookback)

\* Lines 364-424 for the outcome of the awaited fetch; `now` is the clock
\* when the function resumes.
afterFetch(r, outcome, now, lookback) ==
    IF outcome.kind = "throw"
    THEN Step(catchBlock("fetch failed"), <<>>, <<>>, <<>>)
    ELSE IF outcome.kind = "notOk"
    THEN Step(Returned([ok |-> FALSE, error |-> "API error", status |-> 500]),
              <<>>, <<>>, <<>>)
    ELSE IF outcome.kind = "nullData"
    THEN Step(catchBlock("Cannot read properties of null (reading 'bars')"),
              <<>>, <<>>, <<>>)
    ELSE IF outcome.kind \in {"textData", "noBars"}
    THEN Step(Returned([ok |-> FALSE, error |-> "No bars returned from API"]),
              <<>>, <<>>, <<>>)
    ELSE IF Len(outcome.bars) = 0
    THEN Step(Returned([ok |-> FALSE, error |-> "No bars returned from API"]),
              <<>>, <<>>, <<>>)
    ELSE afterTrim(r, trimBars(r, outcome.bars, now), outcome.bars,
                   trimWarnings(r, outcome.bars, now), lookback)

Resume ==
    /\ pc = "fetching"
    /\ \E delay \in 0..MaxDelay :
       \E outcome \in ProviderOutcomes(barDurationOf(req.resolution)) :
       \E after \in {afterFetch(req, outcome, clock + delay, maxLookback)} :
          /\ clock' = clock + delay
          /\ response' = after.response
          /\ bars' = after.bars
          /\ fetched' = after.fetched
          /\ warnings' = warnings \o after.warnings
          /\ pc' = IF after.response = Pending THEN "computing" ELSE "done"
          /\ idx' = 1
    /\ UNCHANGED <<req, query, fetchCalls, computed, calculatedIndicators, fn>>

\* calculatedIndicators[indicator] = stored
withIndicator(calculated, indicator, stored) ==
    [k \in DOMAIN calculated \cup {indicator} |->
        IF k = indicator THEN stored ELSE calculated[k]]

\* What the loop stores for a result (lines 440-458).
storedResult(indicator, result, n) ==
    IF result.kind = "null" THEN insufficientEntry(indicator, n) ELSE result

\* Lines 428-460: one iteration of the loop over normalizedIndicators.
ComputeIndicator ==
    /\ pc = "computing"
    /\ idx <= Len(req.indicators)
    /\ \E throws \in BOOLEAN :
       \E indicator \in {normalizeIndicatorName(req.indicators[idx])} :
       \E result \in {calculateIndicator(indicator,
                                           transformBarsToArrays(bars),
                                           throws)} :
       \E failure \in {strictFailure(req, result)} :
          /\ computed' = computed + 1
          /\ IF failure # ""
             THEN /\ response' = Returned([ok |-> FALSE, error |-> failure])
                  /\ pc' = "done"
                  /\ UNCHANGED <<calculatedIndicators, idx>>
             ELSE /\ calculatedIndicators' =
                        withIndicator(calculatedIndicators, indicator,
                                      storedResult(indicator, result, Len(bars)))
                  /\ idx' = idx + 1
                  /\ UNCHANGED <<response, pc>>
    /\ UNCHANGED <<req, clock, warnings, query, fetchCalls, fetched, bars, fn>>

\* Lines 462-529: the response once every indicator is calculated.
Respond ==
    /\ pc = "computing"
    /\ idx > Len(req.indicators)
    /\ response' = Returned([ok |-> TRUE,
                             data |-> IF req.mode = "snapshot" THEN snapshotOutput
                                      ELSE windowOutput])
    /\ pc' = "done"
    /\ UNCHANGED <<req, clock, warnings, query, fetchCalls, fetched, bars, idx,
                   computed, calculatedIndicators, fn>>

Next == Call \/ Resume \/ ComputeIndicator \/ Respond

Spec == Init /\ [][Next]_vars

---------------------------------------------------------------------------
(* Pure-function harness: calculateIndicator and getIndicatorLookback      *)

\* Largest bar-series length drawn for a direct call.
MaxCalcBars == 52

CalcIdentifiers ==
    {Lit.sma_20, Lit.sma_50, Lit.sma_5, Lit.sma_, Lit.SMAdash20, Lit.ema_12, Lit.ema_26,
     Lit.ema_5, Lit.rsi_14, Lit.rsi_7, Lit.macd, Lit.macd_12_26_9, Lit.bbands,
     Lit.bbands_20_2, Lit.atr_14, Lit.atr_7, Lit.adx_14, Lit.adx_7, Lit.plus_di,
     Lit.minus_di, Lit.vwap, Lit.cci_20, Lit.cci_10, Lit.stoch, Lit.mfi_14, Lit.mfi_7,
     Lit.obv, Lit.foo}

InitCalc ==
    /\ PipelineIdle
    /\ fn \in [op : {"calculateIndicator"},
            indicator : CalcIdentifiers,
            providedBars : 0..MaxCalcBars,
            done : {FALSE},
            lookback : {0},
            result : {NullResult}]

\* The transformed bars handed to a direct call: n bars of the provider.
seriesOf(n) == transformBarsToArrays(providerBars(n, StartClock, 300, "plain"))

\* calculateIndicator(indicator, bars) and getIndicatorLookback(indicator)
\* applied to the drawn input.
ApplyCalc ==
    /\ fn.op = "calculateIndicator"
    /\ ~fn.done
    /\ \E throws \in BOOLEAN :
          fn' = [fn EXCEPT
                    !.done = TRUE,
                    !.lookback = getIndicatorLookback(fn.indicator),
                    !.result = calculateIndicator(fn.indicator,
                                                  seriesOf(fn.providedBars),
                                                  throws)]
    /\ UNCHANGED pipelineVars

NextCalc == ApplyCalc

SpecCalc == InitCalc /\ [][NextCalc]_vars

---------------------------------------------------------------------------
(* lib/utils/indicators: computeDerivedFields, called directly             *)

\* A JavaScript number with its magnitude, and NaN.
JsInt(n) == [t |-> "number", isNaN |-> FALSE, n |-> n]
JsNaN == [t |-> "number", isNaN |-> TRUE, n |-> 0]

\* typeof v === 'number'
isNumber(v) == v.t = "number"

\* The truthiness of a value: 0, NaN, null and undefined are falsy.
truthy(v) == IF v.t = "number" THEN ~v.isNaN /\ v.n # 0 ELSE v.t = "object"

\* v > k for a number v: false for NaN.
greaterThan(v, k) == ~v.isNaN /\ v.n > k

\* An entry of the indicators record holding `value`.
EntryOf(value) == [value |-> value]

\* indicators[key]
lookup(indicators, key) ==
    IF key \in DOMAIN indicators THEN indicators[key] ELSE JsUndefined

\* The truthiness of indicators[key]: an IndicatorResult, null or undefined.
hasEntry(e) == e # JsUndefined /\ e # JsNull

\* atr && atr.value && typeof atr.value === 'number' && atr.value > 0
atrUsable(atr) ==
    /\ hasEntry(atr)
    /\ truthy(atr.value)
    /\ isNumber(atr.value)
    /\ greaterThan(atr.value, 0)

\* sma20 && sma20.value && typeof sma20.value === 'number'
operandUsable(e) ==
    /\ hasEntry(e)
    /\ truthy(e.value)
    /\ isNumber(e.value)

\* (currentPrice - e.value) / atr.value, as the quotient num / den
distanceInAtr(currentPrice, e, atr) ==
    [num |-> currentPrice - e.value.n, den |-> atr.value.n]

NoDerived == <<>>

derivedField(name, atr, e, currentPrice) ==
    IF atrUsable(atr) /\ operandUsable(e)
    THEN name :> distanceInAtr(currentPrice, e, atr)
    ELSE NoDerived

computeDerivedFields(indicators, currentPrice) ==
    derivedField("dist_sma20_atr", lookup(indicators, Lit.atr_14),
                 lookup(indicators, Lit.sma_20), currentPrice)
    @@ derivedField("dist_vwap_atr", lookup(indicators, Lit.atr_14),
                    lookup(indicators, Lit.vwap), currentPrice)

\* Largest magnitude drawn for an indicator value of a direct call.
MaxDerivedValue == 2
\* Largest current price drawn for a direct call.
MaxDerivedPrice == 3

\* What indicators[key] can be: absent, null, or a result whose value is
\* null, NaN, an object or a number.
DerivedEntries ==
    {JsUndefined, JsNull, EntryOf(JsNull), EntryOf(JsNaN),
     EntryOf(JsObject({"k", "d"}))}
    \cup {EntryOf(JsInt(n)) : n \in 0..MaxDerivedValue}

DerivedKeys == {Lit.atr_14, Lit.sma_20, Lit.vwap}

InitDerived ==
    /\ PipelineIdle
    /\ fn \in [op : {"computeDerivedFields"},
            indicators : [DerivedKeys -> DerivedEntries],
            currentPrice : 1..MaxDerivedPrice,
            done : {FALSE},
            derived : {NoDerived}]

ApplyDerived ==
    /\ fn.op = "computeDerivedFields"
    /\ ~fn.done
    /\ fn' = [fn EXCEPT
                 !.done = TRUE,
                 !.derived = computeDerivedFields(fn.indicators, fn.currentPrice)]
    /\ UNCHANGED pipelineVars

NextDerived == ApplyDerived

SpecDerived == InitDerived /\ [][NextDerived]_vars

---------------------------------------------------------------------------
(* lib/utils/indicators: generateMicroSummary, called directly             *)

\* a > b and a < b for numbers: false when either is NaN.
numGreater(a, b) == ~a.isNaN /\ ~b.isNaN /\ a.n > b.n
lessThan(v, k) == ~v.isNaN /\ v.n < k

\* An entry with its value and delta; the value objects of macd and bbands
\* with the one field the summary reads.
EntryWith(value, delta) == [value |-> value, delta |-> delta]
MacdObject(histogram) == [t |-> "object", histogram |-> histogram]
BbandsObject(bandwidth) == [t |-> "object", bandwidth |-> bandwidth]

\* v.name for a value v: undefined when v has no such field.
fieldOf(v, name) ==
    IF v.t = "object" /\ name \in DOMAIN v THEN v[name] ELSE JsUndefined

\* The label an axis is given and the inputs it pushes.
Stage(label, inputs) == [label |-> label, inputs |-> inputs]

\* Lines 763-771: the bias from price, sma_20 and sma_50.
smaStage(price, sma20, sma50) ==
    IF /\ hasEntry(sma20) /\ hasEntry(sma50)
       /\ isNumber(sma20.value) /\ isNumber(sma50.value)
    THEN IF numGreater(price, sma20.value) /\ numGreater(sma20.value, sma50.value)
         THEN Stage("bullish", <<"price>sma20>sma50">>)
         ELSE IF numGreater(sma20.value, price) /\ numGreater(sma50.value, sma20.value)
         THEN Stage("bearish", <<"price<sma20<sma50">>)
         ELSE Stage("neutral", <<>>)
    ELSE Stage("neutral", <<>>)

\* A faulty variant of the DI stage: +DI > -DI makes the bias bullish and
\* the opposite makes it bearish, whatever it was.
diStageOverrides(bias, plusDI, minusDI) ==
    IF /\ hasEntry(plusDI) /\ hasEntry(minusDI)
       /\ isNumber(plusDI.value) /\ isNumber(minusDI.value)
    THEN IF numGreater(plusDI.value, minusDI.value)
         THEN Stage("bullish", <<"+di>-di">>)
         ELSE Stage("bearish", <<"+di<-di">>)
    ELSE Stage(bias, <<>>)

\* Lines 773-783: the bias moved by the comparison of +DI and -DI.
diStage(bias, plusDI, minusDI) ==
    IF /\ hasEntry(plusDI) /\ hasEntry(minusDI)
       /\ isNumber(plusDI.value) /\ isNumber(minusDI.value)
    THEN IF numGreater(plusDI.value, minusDI.value)
         THEN Stage(IF bias = "bearish" THEN "neutral"
                    ELSE IF bias = "neutral" THEN "bullish" ELSE bias,
                    <<"+di>-di">>)
         ELSE Stage(IF bias = "bullish" THEN "neutral"
                    ELSE IF bias = "neutral" THEN "bearish" ELSE bias,
                    <<"+di<-di">>)
    ELSE Stage(bias, <<>>)

\* A faulty variant of the strength axis: the thresholds are inclusive.
strengthStageInclusive(adx) ==
    IF hasEntry(adx) /\ isNumber(adx.value)
    THEN IF greaterThan(adx.value, 24) THEN Stage("strong", <<"adx>25">>)
         ELSE IF greaterThan(adx.value, 14) THEN Stage("moderate", <<"adx>15">>)
         ELSE Stage("weak", <<"adx<15">>)
    ELSE Stage("weak", <<>>)

\* Lines 785-796: trendStrength.
strengthStage(adx) ==
    IF hasEntry(adx) /\ isNumber(adx.value)
    THEN IF greaterThan(adx.value, 25) THEN Stage("strong", <<"adx>25">>)
         ELSE IF greaterThan(adx.value, 15) THEN Stage("moderate", <<"adx>15">>)
         ELSE Stage("weak", <<"adx<15">>)
    ELSE Stage("weak", <<>>)

\* macd.delta && typeof macd.delta.histogram === 'number'
\*    ? macd.delta.histogram : 0
macdDeltaOf(delta) ==
    IF truthy(delta) /\ isNumber(fieldOf(delta, "histogram"))
    THEN fieldOf(delta, "histogram")
    ELSE JsInt(0)

\* A faulty variant of the momentum decision: a histogram that does not
\* move counts as rising and as falling.
momentumOfLoose(rsiValue, macdHist, macdDelta) ==
    IF greaterThan(rsiValue, 50) /\ greaterThan(macdHist, 0)
    THEN IF greaterThan(macdDelta, -1)
         THEN Stage("positive_strong", <<"macd_hist>0_rising">>)
         ELSE Stage("positive_weakening", <<"macd_hist>0_falling">>)
    ELSE IF lessThan(rsiValue, 50) /\ lessThan(macdHist, 0)
    THEN IF lessThan(macdDelta, 1)
         THEN Stage("negative_strong", <<"macd_hist<0_falling">>)
         ELSE Stage("negative_weakening", <<"macd_hist<0_rising">>)
    ELSE Stage("neutral", <<>>)

\* Lines 803-809: the momentum decision.
momentumOf(rsiValue, macdHist, macdDelta) ==
    IF greaterThan(rsiValue, 50) /\ greaterThan(macdHist, 0)
    THEN IF greaterThan(macdDelta, 0)
         THEN Stage("positive_strong", <<"macd_hist>0_rising">>)
         ELSE Stage("positive_weakening", <<"macd_hist>0_falling">>)
    ELSE IF lessThan(rsiValue, 50) /\ lessThan(macdHist, 0)
    THEN IF lessThan(macdDelta, 0)
         THEN Stage("negative_strong", <<"macd_hist<0_falling">>)
         ELSE Stage("negative_weakening", <<"macd_hist<0_rising">>)
    ELSE Stage("neutral", <<>>)

\* Lines 798-810: momentum.
momentumStage(rsi, macd) ==
    IF /\ hasEntry(rsi) /\ hasEntry(macd)
       /\ isNumber(rsi.value)
       /\ truthy(macd.value)
       /\ isNumber(fieldOf(macd.value, "histogram"))
    THEN momentumOf(rsi.value, fieldOf(macd.value, "histogram"),
                    macdDeltaOf(macd.delta))
    ELSE Stage("neutral", <<>>)

\* (atr / price) * 100 < k and > k for a price above 0, without the division.
\* With NaN on either side both are false.
atrPctBelow(atr, price, k) ==
    ~atr.isNaN /\ ~price.isNaN /\ atr.n * 100 < k * price.n
atrPctAbove(atr, price, k) ==
    ~atr.isNaN /\ ~price.isNaN /\ atr.n * 100 > k * price.n

\* typeof bbands.value.bandwidth === 'number' ? bbands.value.bandwidth : 0
bandwidthOf(value) ==
    IF isNumber(fieldOf(value, "bandwidth")) THEN fieldOf(value, "bandwidth")
    ELSE JsInt(0)

\* A faulty variant of the volatility decision: high needs both conditions.
volatilityOfBoth(atr, bandwidth, price) ==
    IF atrPctBelow(atr, price, 1) /\ lessThan(bandwidth, 2)
    THEN Stage("low", <<"low_volatility">>)
    ELSE IF atrPctAbove(atr, price, 3) /\ greaterThan(bandwidth, 5)
    THEN Stage("high", <<"high_volatility">>)
    ELSE Stage("moderate", <<>>)

\* Lines 813-824: the volatility decision.
volatilityOf(atr, bandwidth, price) ==
    IF atrPctBelow(atr, price, 1) /\ lessThan(bandwidth, 2)
    THEN Stage("low", <<"low_volatility">>)
    ELSE IF atrPctAbove(atr, price, 3) \/ greaterThan(bandwidth, 5)
    THEN Stage("high", <<"high_volatility">>)
    ELSE Stage("moderate", <<>>)

\* Lines 812-825: volatility.
volatilityStage(atr, bbands, price) ==
    IF /\ hasEntry(atr) /\ hasEntry(bbands)
       /\ isNumber(atr.value)
       /\ truthy(bbands.value)
    THEN volatilityOf(atr.value, bandwidthOf(bbands.value), price)
    ELSE Stage("moderate", <<>>)

\* The returned object from the four axes.
summaryOf(sma, bias, strength, momentum, volatility) ==
    [trendBias |-> bias.label,
     trendStrength |-> strength.label,
     momentum |-> momentum.label,
     volatility |-> volatility.label,
     inputs |-> sma.inputs \o bias.inputs \o strength.inputs
                \o momentum.inputs \o volatility.inputs]

biasOf(sma, plusDI, minusDI) == diStage(sma.label, plusDI, minusDI)

generateMicroSummary(indicators, currentPrice) ==
    summaryOf(smaStage(currentPrice, lookup(indicators, Lit.sma_20),
                       lookup(indicators, Lit.sma_50)),
              biasOf(smaStage(currentPrice, lookup(indicators, Lit.sma_20),
                              lookup(indicators, Lit.sma_50)),
                     lookup(indicators, Lit.plus_di),
                     lookup(indicators, Lit.minus_di)),
              strengthStage(lookup(indicators, Lit.adx_14)),
              momentumStage(lookup(indicators, Lit.rsi_14),
                            lookup(indicators, Lit.macd)),
              volatilityStage(lookup(indicators, Lit.atr_14),
                              lookup(indicators, Lit.bbands), currentPrice))

\* Largest values drawn for the inputs of the summary.
MaxTrendValue == 3
MaxDI == 2
MaxAdx == 26
MaxRsi == 51
MaxHistogram == 1
MaxAtr == 7
MaxBandwidth == 6

NumberEntries(lo, hi) == {EntryOf(JsInt(n)) : n \in lo..hi}

\* Inputs that vary the trend bias.
TrendInputs ==
    {[indicators |-> (Lit.sma_20 :> a @@ Lit.sma_50 :> b
                      @@ Lit.plus_di :> c @@ Lit.minus_di :> d),
      currentPrice |-> JsInt(p)] :
        a \in {JsUndefined} \cup NumberEntries(1, MaxTrendValue),
        b \in {JsUndefined} \cup NumberEntries(1, MaxTrendValue),
        c \in {JsUndefined} \cup NumberEntries(1, MaxDI),
        d \in {JsUndefined} \cup NumberEntries(1, MaxDI),
        p \in 1..MaxTrendValue}

\* Inputs that vary the trend strength.
StrengthInputs ==
    {[indicators |-> (Lit.adx_14 :> a), currentPrice |-> JsInt(100)] :
        a \in {JsUndefined, JsNull, EntryOf(JsNull), EntryOf(JsNaN)}
              \cup NumberEntries(14, MaxAdx)}

MacdDeltas ==
    {JsNull} \cup {MacdObject(JsInt(x)) : x \in -1..MaxHistogram}

\* Inputs that vary the momentum.
MomentumInputs ==
    {[indicators |-> (Lit.rsi_14 :> r @@ Lit.macd :> m),
      currentPrice |-> JsInt(100)] :
        r \in {JsUndefined, EntryOf(JsNull)} \cup NumberEntries(49, MaxRsi),
        m \in {JsUndefined, EntryWith(JsNull, JsNull)}
              \cup {EntryWith(MacdObject(JsInt(h)), d) :
                       h \in -1..MaxHistogram, d \in MacdDeltas}}

\* Inputs that vary the volatility: atr / price * 100 runs over the halves
\* and the wholes from 0 on.
VolatilityInputs ==
    {[indicators |-> (Lit.atr_14 :> a @@ Lit.bbands :> b),
      currentPrice |-> JsInt(p)] :
        a \in {JsUndefined} \cup NumberEntries(0, MaxAtr),
        b \in {JsUndefined, EntryOf(JsNull), EntryOf(BbandsObject(JsNaN))}
              \cup {EntryOf(BbandsObject(JsInt(w))) : w \in 1..MaxBandwidth},
        p \in {100, 200}}

SummaryInputs ==
    TrendInputs \cup StrengthInputs \cup MomentumInputs \cup VolatilityInputs

NoSummary == [trendBias |-> "", trendStrength |-> "", momentum |-> "",
              volatility |-> "", inputs |-> <<>>]

InitSummary ==
    /\ PipelineIdle
    /\ \E input \in SummaryInputs :
          fn = [op |-> "generateMicroSummary",
                indicators |-> input.indicators,
                currentPrice |-> input.currentPrice,
                done |-> FALSE,
                summary |-> NoSummary]

ApplySummary ==
    /\ fn.op = "generateMicroSummary"
    /\ ~fn.done
    /\ fn' = [fn EXCEPT
                 !.done = TRUE,
                 !.summary = generateMicroSummary(fn.indicators, fn.currentPrice)]
    /\ UNCHANGED pipelineVars

NextSummary == ApplySummary

SpecSummary == InitSummary /\ [][NextSummary]_vars

---------------------------------------------------------------------------
(* lib/o2-config: resolveApiBaseUrl and resolveProviderUrl                 *)

\* s.trim(), for blanks.
trim(s) ==
    IF \A i \in 1..Len(s) : s[i] = " " THEN <<>>
    ELSE SubSeq(s, CHOOSE i \in 1..Len(s) :
                       s[i] # " " /\ \A j \in 1..(i - 1) : s[j] = " ",
                   CHOOSE i \in 1..Len(s) :
                       s[i] # " " /\ \A j \in (i + 1)..Len(s) : s[j] = " ")

\* baseUrl.replace(/\/+$/, "")
normalizeBaseUrl(s) ==
    IF \A i \in 1..Len(s) : s[i] = "/" THEN <<>>
    ELSE SubSeq(s, 1, CHOOSE i \in 1..Len(s) :
                          s[i] # "/" /\ \A j \in (i + 1)..Len(s) : s[j] = "/")

\* p?.trim(), with undefined read as the empty string (both are falsy).
trimmed(p) == IF p.given THEN trim(p.s) ELSE <<>>

\* What a resolver returns: a text it was given, or one of the constants.
UrlText(s) == [kind |-> "text", text |-> s]
UrlConstant(url) == [kind |-> "constant", url |-> url]

\* getEnvValue("O2_NETWORK")?.trim().toLowerCase() === "testnet"
isTestnet(envNetwork) ==
    toLowerCase(trimmed(envNetwork)) = <<"t", "e", "s", "t", "n", "e", "t">>

resolveApiBaseUrl(override, envBaseUrl, envNetwork) ==
    IF trimmed(override) # <<>> THEN UrlText(normalizeBaseUrl(trimmed(override)))
    ELSE IF trimmed(envBaseUrl) # <<>>
    THEN UrlText(normalizeBaseUrl(trimmed(envBaseUrl)))
    ELSE IF isTestnet(envNetwork) THEN UrlConstant("https://api.devnet.o2.app")
    ELSE UrlConstant("https://api.o2.app")

resolveProviderUrl(override, envProvider, envNetwork) ==
    IF trimmed(override) # <<>> THEN UrlText(trimmed(override))
    ELSE IF trimmed(envProvider) # <<>> THEN UrlText(trimmed(envProvider))
    ELSE IF isTestnet(envNetwork)
    THEN UrlConstant("https://devnet.fuel.network/v1/graphql")
    ELSE UrlConstant("https://mainnet.fuel.network/v1/graphql")

\* Overrides and environment values drawn: undefined, empty, blank, a URL.
UrlParams ==
    {NotGiven, GivenString(<<>>), GivenString(<<" ">>),
     GivenString(<<" ", "u", "/", "/">>)}

NetworkParams ==
    {NotGiven,
     GivenString(<<"d", "e", "v", "n", "e", "t">>),
     GivenString(<<"m", "a", "i", "n", "n", "e", "t">>),
     GivenString(<<"t", "e", "s", "t", "n", "e", "t">>),
     GivenString(<<" ", "T", "e", "s", "t", "n", "e", "t">>)}

InitConfig ==
    /\ PipelineIdle
    /\ fn \in [op : {"resolveApiBaseUrl", "resolveProviderUrl"},
               override : UrlParams,
               envUrl : UrlParams,
               envNetwork : NetworkParams,
               done : {FALSE},
               url : {[kind |-> "none"]}]

ApplyConfig ==
    /\ fn.op \in {"resolveApiBaseUrl", "resolveProviderUrl"}
    /\ ~fn.done
    /\ fn' = [fn EXCEPT
                 !.done = TRUE,
                 !.url = IF fn.op = "resolveApiBaseUrl"
                         THEN resolveApiBaseUrl(fn.override, fn.envUrl, fn.envNetwork)
                         ELSE resolveProviderUrl(fn.override, fn.envUrl,
                                                 fn.envNetwork)]
    /\ UNCHANGED pipelineVars

NextConfig == ApplyConfig

SpecConfig == InitConfig /\ [][NextConfig]_vars

---------------------------------------------------------------------------
(* lib/o2-session-store and the tools o2_session_get, o2_sessions_list     *)

\* Most sessions saved, and the latest time (Date.now()), in one run.
MaxSaves == 2
MaxStoreClock == 1

\* An optional number: undefined, or n.
NoNumber == [given |-> FALSE, n |-> 0]
SomeNumber(n) == [given |-> TRUE, n |-> n]

\* session.expiryMs ? session.expiryMs > now : true
isActive(session, now) ==
    IF session.expiryMs.given /\ session.expiryMs.n # 0
    THEN session.expiryMs.n > now
    ELSE TRUE

\* The entry saveSession puts under sessionId (lines 53-60).
StoredSession(sessionId, params, now) ==
    [sessionId |-> sessionId,
     sessionPrivateKey |-> params.sessionPrivateKey,
     sessionAddress |-> params.sessionAddress,
     tradeAccountId |-> params.tradeAccountId,
     createdAt |-> now,
     expiryMs |-> params.expiryMs]

\* store.sessions[sessionId] = session
putSession(sessions, sessionId, session) ==
    [k \in DOMAIN sessions \cup {sessionId} |->
        IF k = sessionId THEN session ELSE sessions[k]]

\* Object.values(store.sessions): the keys in the order they were inserted,
\* which is the order of the ids (an id is drawn after the store is read).
insertionOrder(sessions) ==
    CHOOSE q \in [1..Cardinality(DOMAIN sessions) -> DOMAIN sessions] :
        \A i, j \in DOMAIN q : i < j => q[i] < q[j]

\* A faulty variant of o2_session_get: the stored session is returned whole.
o2SessionGetWhole(sessions, sessionId, now) ==
    IF sessionId \notin DOMAIN sessions
    THEN [ok |-> FALSE, error |-> "Session not found for session_id", id |-> sessionId]
    ELSE [ok |-> TRUE, session |-> sessions[sessionId],
          isActive |-> isActive(sessions[sessionId], now)]

\* o2_session_get (getSession, then the response without the key).
o2SessionGet(sessions, sessionId, now) ==
    IF sessionId \notin DOMAIN sessions
    THEN [ok |-> FALSE, error |-> "Session not found for session_id", id |-> sessionId]
    ELSE [ok |-> TRUE,
          session |-> [sessionId |-> sessions[sessionId].sessionId,
                       sessionAddress |-> sessions[sessionId].sessionAddress,
                       tradeAccountId |-> sessions[sessionId].tradeAccountId,
                       createdAt |-> sessions[sessionId].createdAt,
                       expiryMs |-> sessions[sessionId].expiryMs],
          isActive |-> isActive(sessions[sessionId], now)]

\* One element of the list o2_sessions_list returns.
listedSession(session, now) ==
    [sessionId |-> session.sessionId, createdAt |-> session.createdAt,
     expiryMs |-> session.expiryMs, isActive |-> isActive(session, now)]

\* The filter of o2_sessions_list:
\* includeExpired || !session.expiryMs || session.expiryMs > now
listed(sessions, includeExpired, now) ==
    SelectSeq([i \in 1..Cardinality(DOMAIN sessions) |->
                  sessions[insertionOrder(sessions)[i]]],
              LAMBDA session : includeExpired \/ isActive(session, now))

o2SessionsList(sessions, includeExpired, now) ==
    [ok |-> TRUE,
     totalSessions |-> Len(listed(sessions, includeExpired, now)),
     sessions |-> [i \in 1..Len(listed(sessions, includeExpired, now)) |->
                      listedSession(listed(sessions, includeExpired, now)[i], now)]]

\* The tool invocations in flight, and what saveSession is called with.
Procs == {1, 2}

SaveParams ==
    [sessionPrivateKey : {"key1", "key2"},
     sessionAddress : {"address"},
     tradeAccountId : {"account"},
     expiryMs : {NoNumber, SomeNumber(1)}]

IdleProc == [pc |-> "idle"]

InitStore ==
    /\ PipelineIdle
    /\ fn = [op |-> "store",
             file |-> <<>>,
             clock |-> 0,
             uuid |-> 1,
             proc |-> [p \in Procs |-> IdleProc],
             returned |-> {},
             written |-> <<>>,
             answered |-> [tool |-> "none"]]

\* saveSession up to its write: readStore, randomUUID, the new entry.
SaveRead(p) ==
    /\ fn.op = "store"
    /\ fn.answered.tool = "none"
    /\ fn.proc[p].pc = "idle"
    /\ fn.uuid <= MaxSaves
    /\ \E params \in SaveParams :
          fn' = [fn EXCEPT
                    !.uuid = fn.uuid + 1,
                    !.proc[p] = [pc |-> "writing",
                                 sessionId |-> fn.uuid,
                                 store |-> putSession(fn.file, fn.uuid,
                                              StoredSession(fn.uuid, params,
                                                            fn.clock))]]
    /\ UNCHANGED pipelineVars

\* writeStore with the store read earlier, and the return of saveSession.
SaveWrite(p) ==
    /\ fn.op = "store"
    /\ fn.answered.tool = "none"
    /\ fn.proc[p].pc = "writing"
    /\ fn' = [fn EXCEPT
                 !.file = fn.proc[p].store,
                 !.returned = fn.returned \cup {fn.proc[p].sessionId},
                 !.written = putSession(fn.written, fn.proc[p].sessionId,
                                fn.proc[p].store[fn.proc[p].sessionId]),
                 !.proc[p] = IdleProc]
    /\ UNCHANGED pipelineVars

\* One call of o2_session_get or o2_sessions_list: a single read of the file.
\* The run is followed up to its first answer.
Answer ==
    /\ fn.op = "store"
    /\ fn.answered.tool = "none"
    /\ \/ \E sessionId \in 1..MaxSaves :
             fn' = [fn EXCEPT
                       !.answered = [tool |-> "o2_session_get",
                                     sessionId |-> sessionId,
                                     sessions |-> fn.file,
                                     now |-> fn.clock,
                                     response |-> o2SessionGet(fn.file, sessionId,
                                                               fn.clock)]]
       \/ \E includeExpired \in BOOLEAN :
             fn' = [fn EXCEPT
                       !.answered = [tool |-> "o2_sessions_list",
                                     includeExpired |-> includeExpired,
                                     sessions |-> fn.file,
                                     now |-> fn.clock,
                                     response |-> o2SessionsList(fn.file,
                                                      includeExpired, fn.clock)]]
    /\ UNCHANGED pipelineVars

\* Time passes.
StoreTick ==
    /\ fn.op = "store"
    /\ fn.answered.tool = "none"
    /\ fn.clock < MaxStoreClock
    /\ fn' = [fn EXCEPT !.clock = fn.clock + 1]
    /\ UNCHANGED pipelineVars

NextStore ==
    \/ \E p \in Procs : SaveRead(p)
    \/ \E p \in Procs : SaveWrite(p)
    \/ Answer
    \/ StoreTick

SpecStore == InitStore /\ [][NextStore]_vars

---------------------------------------------------------------------------
(* tools/o2_place_order and lib/o2-sdk: placing orders one after another   *)

\* DEFAULT_SESSION_EXPIRY_MS, in hours (the unit of time of this section).
SessionExpiry == 48
\* Most calls of o2_place_order in one run.
MaxCalls == 2

\* The sessions of the trade account that have not expired, as the loop of
\* findValidSessionForTradeAccount tests them (lines 95-101).
validSessions(sessions, tradeAccountId, now) ==
    {k \in DOMAIN sessions :
        /\ sessions[k].tradeAccountId = tradeAccountId
        /\ sessions[k].expiryMs.given /\ sessions[k].expiryMs.n # 0
        /\ sessions[k].expiryMs.n > now}

\* A faulty variant of findValidSessionForTradeAccount: it accepts the
\* sessions that have expired instead of those that have not.
findExpiredSession(sessions, tradeAccountId, now) ==
    IF \E k \in DOMAIN sessions :
          /\ sessions[k].tradeAccountId = tradeAccountId
          /\ sessions[k].expiryMs.given /\ sessions[k].expiryMs.n # 0
          /\ sessions[k].expiryMs.n <= now
    THEN CHOOSE k \in DOMAIN sessions :
            /\ sessions[k].tradeAccountId = tradeAccountId
            /\ sessions[k].expiryMs.given /\ sessions[k].expiryMs.n # 0
            /\ sessions[k].expiryMs.n <= now
    ELSE 0

\* findValidSessionForTradeAccount: the id of the first such session in the
\* order of Object.values, 0 for null.
findValidSessionForTradeAccount(sessions, tradeAccountId, now) ==
    IF validSessions(sessions, tradeAccountId, now) = {} THEN 0
    ELSE CHOOSE k \in validSessions(sessions, tradeAccountId, now) :
            \A other \in validSessions(sessions, tradeAccountId, now) : k <= other

\* The key of a signer made by new FuelSessionSigner(), and a key given to
\* o2_session_create.
GeneratedKey(n) == [origin |-> "generated", n |-> n]
GivenKey(name) == [origin |-> "given", name |-> name]

\* Lines 286-295: the parameters of the saveSession call.
newSessionParams(sessionId, tradeAccountId, now) ==
    [sessionPrivateKey |-> GeneratedKey(sessionId),
     sessionAddress |-> "address",
     tradeAccountId |-> tradeAccountId,
     expiryMs |-> SomeNumber(now + SessionExpiry)]

\* What a call leaves: the store, the signer's key (when a signer is made),
\* whether it threw and whether it submitted an order.
OrderOutcome(sessions, signer, error, submitted) ==
    [sessions |-> sessions, signer |-> signer, error |-> error,
     submitted |-> submitted]

NoSigner == [origin |-> "none"]

\* placeOrderWithRestApi from the session lookup on (lines 257-342).
\* `fails` names the awaited call that throws, `existing` is what
\* findValidSessionForTradeAccount returned, `sessionId` the id saveSession
\* draws, `later` the time of the second Date.now().
restAfterLookup(sessions, params, existing, sessionId, later, fails) ==
    IF fails = "init"
    THEN OrderOutcome(sessions, NoSigner, "initTradeAccountManager failed", FALSE)
    ELSE IF existing # 0
    THEN (IF fails = "market"
          THEN OrderOutcome(sessions, sessions[existing].sessionPrivateKey,
                            "Market not found", FALSE)
          ELSE IF (params.rawPrice /\ params.rawQuantity)
                  \/ (params.price /\ params.quantity)
          THEN OrderOutcome(sessions, sessions[existing].sessionPrivateKey, "", TRUE)
          ELSE OrderOutcome(sessions, sessions[existing].sessionPrivateKey,
                            "Either (rawPrice and rawQuantity) or (price and quantity) must be provided",
                            FALSE))
    ELSE (IF fails = "market"
          THEN OrderOutcome(putSession(sessions, sessionId,
                               StoredSession(sessionId,
                                  newSessionParams(sessionId, params.tradeAccountId,
                                                   later), later)),
                            GeneratedKey(sessionId), "Market not found", FALSE)
          ELSE IF (params.rawPrice /\ params.rawQuantity)
                  \/ (params.price /\ params.quantity)
          THEN OrderOutcome(putSession(sessions, sessionId,
                               StoredSession(sessionId,
                                  newSessionParams(sessionId, params.tradeAccountId,
                                                   later), later)),
                            GeneratedKey(sessionId), "", TRUE)
          ELSE OrderOutcome(putSession(sessions, sessionId,
                               StoredSession(sessionId,
                                  newSessionParams(sessionId, params.tradeAccountId,
                                                   later), later)),
                            GeneratedKey(sessionId),
                            "Either (rawPrice and rawQuantity) or (price and quantity) must be provided",
                            FALSE))

placeOrderWithRestApi(sessions, params, sessionId, now, later, fails) ==
    restAfterLookup(sessions, params,
                    findValidSessionForTradeAccount(sessions, params.tradeAccountId,
                                                    now),
                    sessionId, later, fails)

\* placeOrderWithSdk: the order is signed with the key passed in.
placeOrderWithSdk(sessions, key, fails) ==
    IF fails = "init"
    THEN OrderOutcome(sessions, NoSigner, "TraderAccount.create failed", FALSE)
    ELSE OrderOutcome(sessions, key, "", TRUE)

\* o2_place_order (part_000:61-114), for the presence of its four optional
\* parameters.
o2PlaceOrder(sessions, params, sessionId, now, later, fails) ==
    IF params.sessionId \notin DOMAIN sessions
    THEN OrderOutcome(sessions, NoSigner, "Session not found for session_id", FALSE)
    ELSE IF ~(params.rawPrice /\ params.rawQuantity)
            /\ ~(params.price /\ params.quantity)
    THEN OrderOutcome(sessions, NoSigner,
                      "Either (rawPrice and rawQuantity) or (price and quantity) must be provided",
                      FALSE)
    ELSE IF (params.rawPrice /\ params.rawQuantity)
            /\ (params.price /\ params.quantity)
    THEN OrderOutcome(sessions, NoSigner,
                      "Cannot use both raw and pre-scaled values", FALSE)
    ELSE IF params.rawPrice /\ params.rawQuantity
    THEN placeOrderWithRestApi(sessions, params, sessionId, now, later, fails)
    ELSE placeOrderWithSdk(sessions, sessions[params.sessionId].sessionPrivateKey,
                           fails)

\* The requests drawn: each of the four optional parameters given or not.
OrderParams ==
    [tradeAccountId : {"account"}, sessionId : {1},
     rawPrice : BOOLEAN, rawQuantity : BOOLEAN,
     price : BOOLEAN, quantity : BOOLEAN]

\* The store before the first call: empty, or holding the session an
\* o2_session_create call saved at time 0.
FirstSessions ==
    {<<>>}
    \cup {putSession(<<>>, 1,
             StoredSession(1, [sessionPrivateKey |-> GivenKey("key1"),
                               sessionAddress |-> "address",
                               tradeAccountId |-> account,
                               expiryMs |-> expiry], 0)) :
            account \in {"account", "other"},
            expiry \in {NoNumber, SomeNumber(1), SomeNumber(SessionExpiry)}}

InitOrders ==
    /\ PipelineIdle
    /\ \E sessions \in FirstSessions :
          fn = [op |-> "orders",
                file |-> sessions,
                clock |-> 0,
                uuid |-> 2,
                calls |-> 0,
                added |-> 0,
                firstCallAt |-> 0,
                last |-> [made |-> FALSE]]

\* One call of o2_place_order, from its request to its return or throw;
\* `wait` is the time since the previous call ended and `delay` the time
\* between the two readings of the clock.
PlaceOrder ==
    /\ fn.op = "orders"
    /\ fn.calls < MaxCalls
    /\ \E params \in OrderParams :
       \E wait \in {0, SessionExpiry - 1, SessionExpiry} :
       \E delay \in {0, 1} :
       \E fails \in {"none", "init", "market"} :
       \E outcome \in {o2PlaceOrder(fn.file, params, fn.uuid, fn.clock + wait,
                                    fn.clock + wait + delay, fails)} :
          fn' = [fn EXCEPT
                    !.file = outcome.sessions,
                    !.clock = fn.clock + wait + delay,
                    !.uuid = IF outcome.sessions = fn.file THEN fn.uuid
                             ELSE fn.uuid + 1,
                    !.calls = fn.calls + 1,
                    !.added = IF outcome.sessions = fn.file THEN fn.added
                              ELSE fn.added + 1,
                    !.firstCallAt = IF fn.calls = 0 THEN fn.clock + wait
                                    ELSE fn.firstCallAt,
                    !.last = [made |-> TRUE, params |-> params,
                              before |-> fn.file, now |-> fn.clock + wait,
                              outcome |-> outcome]]
    /\ UNCHANGED pipelineVars

NextOrders == PlaceOrder

SpecOrders == InitOrders /\ [][NextOrders]_vars

---------------------------------------------------------------------------
(* lib/rest-api: executeWithRetry and the default error handler            *)

\* configuration.retries
Retries == 2

\* The executeWithRetry calls followed: two requests of the tools, and the
\* createSession call the default handler makes.
Requesters == {1, 2}
NestedCall == 3

\* What buildAndExecute fails with: the stale-nonce error, the invalid
\* session error, or an error the default handler does not know.
Errors == {"nonce", "session", "other"}

IdleCall ==
    [pc |-> "idle", attempt |-> 0, invocations |-> 0, onSuccess |-> 0,
     err |-> "none", thrown |-> "none", stage |-> "none"]

InitRetry ==
    /\ PipelineIdle
    /\ fn = [op |-> "retry",
             isInErrorHandler |-> FALSE,
             call |-> [c \in Requesters \cup {NestedCall} |-> IdleCall]]

\* A tool calls executeWithRetry: attempt 0 invokes buildAndExecute.
Begin(c) ==
    /\ fn.op = "retry"
    /\ c \in Requesters
    /\ fn.call[c].pc = "idle"
    /\ fn' = [fn EXCEPT !.call[c] = [IdleCall EXCEPT !.pc = "executing",
                                                     !.invocations = 1]]
    /\ UNCHANGED pipelineVars

\* Lines 44-46: buildAndExecute resolves; onSuccess, return.
Succeed(c) ==
    /\ fn.op = "retry"
    /\ fn.call[c].pc = "executing"
    /\ fn' = [fn EXCEPT !.call[c].pc = "returned",
                        !.call[c].onSuccess = fn.call[c].onSuccess + 1]
    /\ UNCHANGED pipelineVars

\* A faulty variant of the catch block: the handler is called whatever the
\* flag says.
FailUnguarded(c) ==
    /\ fn.op = "retry"
    /\ fn.call[c].pc = "executing"
    /\ \E e \in Errors :
          fn' = [fn EXCEPT !.isInErrorHandler = TRUE,
                           !.call[c].pc = "handling",
                           !.call[c].err = e,
                           !.call[c].stage = "started"]
    /\ UNCHANGED pipelineVars

\* Lines 47-60 and 73: buildAndExecute rejects. With the flag down the flag
\* is raised and the handler called; with the flag up shouldRetry stays
\* false and the error is thrown.
Fail(c) ==
    /\ fn.op = "retry"
    /\ fn.call[c].pc = "executing"
    /\ \E e \in Errors :
          IF ~fn.isInErrorHandler
          THEN fn' = [fn EXCEPT !.isInErrorHandler = TRUE,
                                !.call[c].pc = "handling",
                                !.call[c].err = e,
                                !.call[c].stage = "started"]
          ELSE fn' = [fn EXCEPT !.call[c].pc = "threw",
                                !.call[c].err = e,
                                !.call[c].thrown = e]
    /\ UNCHANGED pipelineVars

\* client.ts:358-366: for the invalid session error the handler, after
\* fetchNonce and recoverSession, calls restApi.createSession, itself an
\* executeWithRetry call.
HandlerNests(c) ==
    /\ fn.op = "retry"
    /\ fn.call[c].pc = "handling"
    /\ fn.call[c].err = "session"
    /\ fn.call[c].stage = "started"
    /\ fn' = [fn EXCEPT !.call[c].stage = "creating",
                        !.call[NestedCall] = [IdleCall EXCEPT
                                                 !.pc = "executing",
                                                 !.invocations = 1]]
    /\ UNCHANGED pipelineVars

\* What the handler resolves with, when it is about to resolve.
handlerResult(call, nested) ==
    IF call.err = "other" THEN "false"
    ELSE IF call.err = "nonce" THEN "true"
    ELSE IF call.stage = "creating" /\ nested.pc = "returned" THEN "true"
    ELSE "pending"

\* Lines 61-74: the handler resolves; the flag is lowered; then the retry
\* (after the backoff delay) or the throw of the attempt's error.
HandlerReturns(c) ==
    /\ fn.op = "retry"
    /\ fn.call[c].pc = "handling"
    /\ handlerResult(fn.call[c], fn.call[NestedCall]) # "pending"
    /\ fn' = [fn EXCEPT
                 !.isInErrorHandler = FALSE,
                 !.call[NestedCall] = IdleCall,
                 !.call[c] =
                    IF handlerResult(fn.call[c], fn.call[NestedCall]) = "true"
                       /\ Retries - fn.call[c].attempt > 0
                    THEN [fn.call[c] EXCEPT !.pc = "backoff", !.stage = "none"]
                    ELSE [fn.call[c] EXCEPT !.pc = "threw", !.stage = "none",
                                            !.thrown = fn.call[c].err]]
    /\ UNCHANGED pipelineVars

\* Lines 61-63: the handler rejects (fetchNonce or recoverSession rejects,
\* or the createSession call threw); the flag is lowered by the finally
\* block and the handler's error leaves executeWithRetry.
HandlerThrows(c) ==
    /\ fn.op = "retry"
    /\ fn.call[c].pc = "handling"
    /\ \/ fn.call[c].err \in {"nonce", "session"} /\ fn.call[c].stage = "started"
       \/ fn.call[c].stage = "creating" /\ fn.call[NestedCall].pc = "threw"
    /\ fn' = [fn EXCEPT
                 !.isInErrorHandler = FALSE,
                 !.call[NestedCall] = IdleCall,
                 !.call[c] = [fn.call[c] EXCEPT !.pc = "threw", !.stage = "none",
                                                !.thrown = "handler"]]
    /\ UNCHANGED pipelineVars

\* Lines 69-70 and 43-44: the delay is over; the next attempt invokes
\* buildAndExecute again.
Retry(c) ==
    /\ fn.op = "retry"
    /\ fn.call[c].pc = "backoff"
    /\ fn.call[c].attempt + 1 <= Retries
    /\ fn' = [fn EXCEPT !.call[c].pc = "executing",
                        !.call[c].attempt = fn.call[c].attempt + 1,
                        !.call[c].invocations = fn.call[c].invocations + 1]
    /\ UNCHANGED pipelineVars

NextRetry ==
    \E c \in Requesters \cup {NestedCall} :
        \/ Begin(c)
        \/ Succeed(c)
        \/ Fail(c)
        \/ HandlerNests(c)
        \/ HandlerReturns(c)
        \/ HandlerThrows(c)
        \/ Retry(c)

SpecRetry == InitRetry /\ [][NextRetry]_vars

---------------------------------------------------------------------------
(* Properties of the invocation (specification Spec)                       *)

Range(s) == {s[i] : i \in DOMAIN s}

\* The number of warnings with the given code.
WarningCount(code) ==
    Cardinality({i \in DOMAIN warnings : warnings[i].code = code})

Min(a, b) == IF a <= b THEN a ELSE b

\* The invocation has returned ok:true.
Succeeded ==
    /\ pc = "done"
    /\ response.state = "returned"
    /\ response.payload.ok

\* The value the response reports for the indicator stored under key k.
ReportedValue(k) ==
    IF req.mode = "snapshot" THEN response.payload.data.indicators[k].value
    ELSE response.payload.data.indicators[k]

\* The error the response reports for key k ("" for none; a window response
\* carries no error field).
ReportedError(k) ==
    IF req.mode = "snapshot" THEN response.payload.data.indicators[k].error
    ELSE ""

\* requiredBars of the specification's indicator table for an identifier, by
\* family and period P.
tableRequiredBars(indicator) ==
    LET id == lowerUnderscore(indicator) IN
    IF startsWith(id, Lit.sma_) THEN periodOr(id, 20)
    ELSE IF startsWith(id, Lit.ema_) THEN 2 * periodOr(id, 12)
    ELSE IF startsWith(id, Lit.rsi_) THEN periodOr(id, 14) + 1
    ELSE IF id = Lit.macd \/ startsWith(id, Lit.macd_) THEN 35
    ELSE IF id = Lit.bbands \/ startsWith(id, Lit.bbands_) THEN 20
    ELSE IF startsWith(id, Lit.atr_) THEN periodOr(id, 14)
    ELSE IF startsWith(id, Lit.adx_) THEN 2 * periodOr(id, 14)
    ELSE IF id \in {Lit.plus_di, Lit.minus_di} THEN 28
    ELSE IF id = Lit.vwap THEN 1
    ELSE IF startsWith(id, Lit.cci_) THEN periodOr(id, 20)
    ELSE IF id = Lit.stoch THEN 14
    ELSE IF startsWith(id, Lit.mfi_) THEN periodOr(id, 14)
    ELSE IF id = Lit.obv THEN 1
    ELSE 50

\* C1: a call with more than 20 indicator identifiers makes no bar-fetch call,
\* computes no indicator, and ends in a failure result (ok:false).
C1_TooManyIsFatal ==
    Len(req.indicators) > 20 =>
        /\ fetchCalls = 0
        /\ ~query.sent
        /\ computed = 0
        /\ pc \in {"start", "done"}
        /\ pc = "done" =>
              /\ response.state = "returned"
              /\ response.payload.ok = FALSE

C1_Witness ==
    /\ pc = "done"
    /\ Len(req.indicators) = 21
    /\ response.state = "returned"
    /\ response.payload.ok = FALSE

\* C2: when fewer bars than maxLookback remain after trimming, a strict
\* request ends in ok:false with no indicator computed, and a non-strict
\* request returns ok:true with an INSUFFICIENT_BARS warning and a null value
\* for every indicator whose required bar count exceeds the available bars.
\* (The bars are decodable; an undecodable bar is the subject of C4.)
C2_InsufficientBars ==
    (/\ pc = "done"
     /\ fetched # <<>>
     /\ ~transformThrows(bars)
     /\ LengthBelow(Len(bars), maxLookback)) =>
        IF req.strict
        THEN /\ response.payload.ok = FALSE
             /\ computed = 0
        ELSE /\ response.payload.ok = TRUE
             /\ WarningCount("INSUFFICIENT_BARS") = 1
             /\ \A i \in 1..Len(req.indicators) :
                   tableRequiredBars(normalizedIndicators[i]) > Len(bars) =>
                       ReportedValue(normalizedIndicators[i]) = JsNull

\* C3: every ok:true response of a strict request holds, for every requested
\* indicator, a non-null value and no error.
C3_StrictIsComplete ==
    (Succeeded /\ req.strict) =>
        \A i \in 1..Len(req.indicators) :
            /\ normalizedIndicators[i] \in DOMAIN response.payload.data.indicators
            /\ ReportedValue(normalizedIndicators[i]) \notin {JsNull, JsUndefined}
            /\ ReportedError(normalizedIndicators[i]) = ""

resolutionDuration(resolution) ==
    CASE resolution = "1m" -> 60
      [] resolution = "5m" -> 300
      [] resolution = "15m" -> 900
      [] resolution = "30m" -> 1800
      [] resolution = "1h" -> 3600
      [] resolution = "4h" -> 14400
      [] resolution = "1d" -> 86400
      [] resolution = "1w" -> 604800

\* now - lastBar.timestamp < bar duration, with includeIncompleteLastBar off,
\* for the bars the provider returned.
TrailingBarIncomplete ==
    /\ ~req.includeIncompleteLastBar
    /\ clock - fetched[Len(fetched)].timestamp < resolutionDuration(req.resolution)

\* C5: the trailing bar is dropped, with one INCOMPLETE_LAST_BAR warning that
\* carries its timestamp, exactly when includeIncompleteLastBar is off and
\* now - lastBar.timestamp is below the resolution's bar duration; otherwise
\* the bars are kept as fetched and there is no such warning. The bars kept
\* are the fetched ones in order, less at most the last.
C5_TrailingBarTrim ==
    fetched # <<>> =>
        IF TrailingBarIncomplete
        THEN /\ bars = SubSeq(fetched, 1, Len(fetched) - 1)
             /\ WarningCount("INCOMPLETE_LAST_BAR") = 1
             /\ [code |-> "INCOMPLETE_LAST_BAR",
                 timestamp |-> Num(fetched[Len(fetched)].timestamp)]
                    \in Range(warnings)
        ELSE /\ bars = fetched
             /\ WarningCount("INCOMPLETE_LAST_BAR") = 0

C5_Witness ==
    /\ Succeeded
    /\ Len(fetched) = 3
    /\ Len(bars) = 2
    /\ clock - fetched[3].timestamp = resolutionDuration(req.resolution) - 1
    /\ WarningCount("INCOMPLETE_LAST_BAR") = 1

\* C6: a successful window response holds exactly min(windowSize, available
\* bars) timestamps, the last ones of the bar sequence, strictly increasing.
C6_WindowTimestamps ==
    (Succeeded /\ req.mode = "window") =>
        /\ Len(response.payload.data.timestamps)
              = Min(windowSizeOf(req), Len(bars))
        /\ \A j \in 1..Len(response.payload.data.timestamps) :
              response.payload.data.timestamps[j]
                 = bars[Len(bars) - Len(response.payload.data.timestamps) + j].timestamp
        /\ \A j \in 1..(Len(response.payload.data.timestamps) - 1) :
              response.payload.data.timestamps[j]
                 < response.payload.data.timestamps[j + 1]

\* C7: in a successful window response every indicator maps to null or to an
\* array as long as the timestamps array, and the response has no prev,
\* delta, derived or microSummary field.
C7_WindowArrays ==
    (Succeeded /\ req.mode = "window") =>
        /\ \A k \in DOMAIN response.payload.data.indicators :
              \/ response.payload.data.indicators[k] = JsNull
              \/ /\ response.payload.data.indicators[k].t = "array"
                 /\ response.payload.data.indicators[k].length
                       = Len(response.payload.data.timestamps)
        /\ DOMAIN response.payload.data
              \cap {"prev", "delta", "derived", "microSummary"} = {}

\* C8: once the bar fetch is issued, a supplied `from` is the query's from, a
\* supplied `to` is the query's to unless asOf is supplied, a supplied asOf is
\* the query's to with exactly one AS_OF_TIMESTAMP warning, and without asOf
\* there is no such warning.
C8_TimeWindow ==
    query.sent =>
        /\ req.from.given => query.from = toTimestamp(req.from)
        /\ (req.to.given /\ ~req.asOf.given) => query.to = toTimestamp(req.to)
        /\ req.asOf.given =>
              /\ query.to = toTimestamp(req.asOf)
              /\ WarningCount("AS_OF_TIMESTAMP") = 1
        /\ ~req.asOf.given => WarningCount("AS_OF_TIMESTAMP") = 0

\* C11: in a successful non-strict response no indicator reports a value
\* holding a non-finite number: a numeric failure appears as an entry with
\* value null and an error, and every requested indicator has an entry.
C11_NumericFailureConverted ==
    (Succeeded /\ ~req.strict /\ req.mode = "snapshot") =>
        \A i \in 1..Len(req.indicators) :
            /\ normalizedIndicators[i] \in DOMAIN response.payload.data.indicators
            /\ ReportedValue(normalizedIndicators[i]).t = "object" =>
                  ReportedValue(normalizedIndicators[i]).nan = {}
            /\ ReportedError(normalizedIndicators[i]) # "" =>
                  ReportedValue(normalizedIndicators[i]) = JsNull

\* C18: the outcome of a run is decided by the provider's response, the
\* indicator list and the options alone: the bars the indicators are computed
\* on, and the warnings about them, are those of the run that resumes at the
\* time of the call, whatever the time at which this run resumes.
C18_TimeIndependent ==
    (pc \in {"computing", "done"} /\ fetched # <<>>) =>
        /\ bars = trimBars(req, fetched, StartClock)
        /\ warnings = asOfWarnings(req.asOf)
                         \o afterFetch(req, [kind |-> "bars", bars |-> fetched],
                                       StartClock, maxLookback).warnings

C20_SingleFetch ==
    /\ fetchCalls <= 1
    /\ computed > 0 => (fetchCalls = 1 /\ fetched # <<>>)
    /\ (pc = "done" /\ fetchCalls = 1 /\ fetched = <<>>) =>
          /\ response.state = "returned"
          /\ ~response.payload.ok
          /\ computed = 0

\* The request has ended after a fetch that returned no bars.
C20_Witness ==
    /\ pc = "done"
    /\ fetchCalls = 1
    /\ fetched = <<>>
    /\ computed = 0
    /\ response = Returned([ok |-> FALSE, error |-> "No bars returned from API"])

---------------------------------------------------------------------------
(* Properties of the direct calls (specification SpecCalc)                 *)

\* C9: getIndicatorLookback returns the table's requiredBars for the
\* identifier, and the meta.requiredBars of a calculateIndicator result for
\* the same identifier is that number.
C9_LookbackTable ==
    fn.done =>
        /\ fn.lookback = tableRequiredBars(fn.indicator)
        /\ fn.result.kind # "null" => fn.result.meta.requiredBars = fn.lookback

\* C10: a result of calculateIndicator that is neither null nor an error was
\* given at least meta.requiredBars bars.
C10_NullBelowRequired ==
    (fn.done /\ fn.result.kind = "value") =>
        fn.result.meta.providedBars >= fn.result.meta.requiredBars

\* C12: a result whose output series has at least two points carries prev
\* and delta, with every sub-field of value when value has sub-fields; with
\* one output point prev and delta are null.
C12_PrevAndDelta ==
    (fn.done /\ fn.result.kind = "value") =>
        /\ fn.result.outLen >= 2 =>
              /\ fn.result.prev.t = fn.result.value.t
              /\ fn.result.delta.t = fn.result.value.t
              /\ fn.result.value.t = "object" =>
                    /\ fn.result.prev.fields = fn.result.value.fields
                    /\ fn.result.delta.fields = fn.result.value.fields
        /\ fn.result.outLen = 1 =>
              /\ fn.result.prev = JsNull
              /\ fn.result.delta = JsNull

---------------------------------------------------------------------------
(* Properties of computeDerivedFields (specification SpecDerived)          *)

\* indicators[key] has a numeric value (a number that is not NaN).
HasNumericValue(key) ==
    /\ hasEntry(fn.indicators[key])
    /\ fn.indicators[key].value.t = "number"
    /\ ~fn.indicators[key].value.isNaN

\* atr_14 has a numeric value above 0.
AtrPositive ==
    /\ HasNumericValue(Lit.atr_14)
    /\ fn.indicators[Lit.atr_14].value.n > 0

\* C13: dist_sma20_atr (dist_vwap_atr) is in the result exactly when atr_14
\* has a numeric value above 0 and sma_20 (vwap) has a numeric value, and
\* then it is (currentPrice - sma20) / atr14 ((currentPrice - vwap) / atr14).
C13_DerivedFields ==
    fn.done =>
        /\ "dist_sma20_atr" \in DOMAIN fn.derived
              <=> (AtrPositive /\ HasNumericValue(Lit.sma_20))
        /\ "dist_vwap_atr" \in DOMAIN fn.derived
              <=> (AtrPositive /\ HasNumericValue(Lit.vwap))
        /\ "dist_sma20_atr" \in DOMAIN fn.derived =>
              fn.derived["dist_sma20_atr"]
                 = [num |-> fn.currentPrice - fn.indicators[Lit.sma_20].value.n,
                    den |-> fn.indicators[Lit.atr_14].value.n]
        /\ "dist_vwap_atr" \in DOMAIN fn.derived =>
              fn.derived["dist_vwap_atr"]
                 = [num |-> fn.currentPrice - fn.indicators[Lit.vwap].value.n,
                    den |-> fn.indicators[Lit.atr_14].value.n]

---------------------------------------------------------------------------
(* Properties of generateMicroSummary (specification SpecSummary)          *)

\* indicators[key] is a result whose value is a number.
Given(key) ==
    /\ key \in DOMAIN fn.indicators
    /\ hasEntry(fn.indicators[key])
    /\ fn.indicators[key].value.t = "number"

\* That number; comparisons with NaN are false.
ValueOf(key) == fn.indicators[key].value.n
Comparable(key) == Given(key) /\ ~fn.indicators[key].value.isNaN

PriceAboveAverages ==
    /\ Comparable(Lit.sma_20) /\ Comparable(Lit.sma_50)
    /\ fn.currentPrice.n > ValueOf(Lit.sma_20)
    /\ ValueOf(Lit.sma_20) > ValueOf(Lit.sma_50)

PriceBelowAverages ==
    /\ Comparable(Lit.sma_20) /\ Comparable(Lit.sma_50)
    /\ fn.currentPrice.n < ValueOf(Lit.sma_20)
    /\ ValueOf(Lit.sma_20) < ValueOf(Lit.sma_50)

DIGiven == Given(Lit.plus_di) /\ Given(Lit.minus_di)

PlusLeads ==
    /\ Comparable(Lit.plus_di) /\ Comparable(Lit.minus_di)
    /\ ValueOf(Lit.plus_di) > ValueOf(Lit.minus_di)

FirstStageBias ==
    IF PriceAboveAverages THEN "bullish"
    ELSE IF PriceBelowAverages THEN "bearish"
    ELSE "neutral"

CascadeBias ==
    IF ~DIGiven THEN FirstStageBias
    ELSE IF PlusLeads
    THEN CASE FirstStageBias = "bearish" -> "neutral"
           [] FirstStageBias = "neutral" -> "bullish"
           [] OTHER -> "bullish"
    ELSE CASE FirstStageBias = "bullish" -> "neutral"
           [] FirstStageBias = "neutral" -> "bearish"
           [] OTHER -> "bearish"

\* C14: trendBias is the result of the two-stage cascade (neutral, then
\* bullish or bearish from price, sma20 and sma50, then moved one step by the
\* comparison of +DI and -DI when both are available); it is never bearish
\* when price > sma20 > sma50 and never bullish when price < sma20 < sma50.
C14_TrendBiasCascade ==
    fn.done =>
        /\ fn.summary.trendBias = CascadeBias
        /\ PriceAboveAverages => fn.summary.trendBias # "bearish"
        /\ PriceBelowAverages => fn.summary.trendBias # "bullish"

\* The averages say bearish and +DI leads: the bias is moved to neutral.
C14_Witness ==
    /\ fn.done
    /\ fn.op = "generateMicroSummary"
    /\ PriceBelowAverages
    /\ DIGiven /\ PlusLeads
    /\ fn.summary.trendBias = "neutral"

\* macd has a value whose histogram is a number.
HistogramGiven ==
    /\ Lit.macd \in DOMAIN fn.indicators
    /\ hasEntry(fn.indicators[Lit.macd])
    /\ fn.indicators[Lit.macd].value.t = "object"
    /\ fn.indicators[Lit.macd].value.histogram.t = "number"

Histogram == fn.indicators[Lit.macd].value.histogram.n

\* The change of the histogram since the previous point: 0 when unknown.
HistogramChange ==
    IF fn.indicators[Lit.macd].delta.t = "object"
    THEN fn.indicators[Lit.macd].delta.histogram.n
    ELSE 0

ExpectedMomentum ==
    IF ~(Comparable(Lit.rsi_14) /\ HistogramGiven) THEN "neutral"
    ELSE IF ValueOf(Lit.rsi_14) > 50 /\ Histogram > 0
    THEN IF HistogramChange > 0 THEN "positive_strong" ELSE "positive_weakening"
    ELSE IF ValueOf(Lit.rsi_14) < 50 /\ Histogram < 0
    THEN IF HistogramChange < 0 THEN "negative_strong" ELSE "negative_weakening"
    ELSE "neutral"

\* C15: momentum is positive_strong for rsi > 50, histogram > 0 and a rising
\* histogram, positive_weakening when it is not rising, negative_strong for
\* rsi < 50, histogram < 0 and a falling histogram, negative_weakening when
\* it is not falling, and neutral in every other case.
C15_Momentum ==
    fn.done => fn.summary.momentum = ExpectedMomentum

\* rsi above 50 and a positive histogram that does not move: weakening.
C15_Witness ==
    /\ fn.done
    /\ fn.op = "generateMicroSummary"
    /\ Comparable(Lit.rsi_14) /\ HistogramGiven
    /\ ValueOf(Lit.rsi_14) > 50 /\ Histogram > 0
    /\ fn.indicators[Lit.macd].delta.t = "object"
    /\ HistogramChange = 0
    /\ fn.summary.momentum = "positive_weakening"

\* atr_14 has a number and bbands has a value.
VolatilityGiven ==
    /\ Given(Lit.atr_14)
    /\ Lit.bbands \in DOMAIN fn.indicators
    /\ hasEntry(fn.indicators[Lit.bbands])
    /\ fn.indicators[Lit.bbands].value.t = "object"

Bandwidth == fn.indicators[Lit.bbands].value.bandwidth

\* atrPct = atr / currentPrice * 100 against a threshold k, for a price
\* above 0.
AtrPctBelow(k) == ValueOf(Lit.atr_14) * 100 < k * fn.currentPrice.n
AtrPctAbove(k) == ValueOf(Lit.atr_14) * 100 > k * fn.currentPrice.n

LowVolatility ==
    AtrPctBelow(1) /\ ~Bandwidth.isNaN /\ Bandwidth.n < 2

HighVolatility ==
    AtrPctAbove(3) \/ (~Bandwidth.isNaN /\ Bandwidth.n > 5)

\* C16: with ATR and Bollinger results available, volatility is low when
\* atrPct < 1 and bandwidth < 2, high when atrPct > 3 or bandwidth > 5, and
\* moderate otherwise; exactly one of the three holds.
C16_Volatility ==
    (fn.done /\ VolatilityGiven /\ fn.currentPrice.n > 0) =>
        /\ LowVolatility <=> fn.summary.volatility = "low"
        /\ HighVolatility <=> fn.summary.volatility = "high"
        /\ (~LowVolatility /\ ~HighVolatility)
              <=> fn.summary.volatility = "moderate"
        /\ ~(LowVolatility /\ HighVolatility)

\* A small atrPct with a wide band: high.
C16_Witness ==
    /\ fn.done
    /\ fn.op = "generateMicroSummary"
    /\ VolatilityGiven /\ fn.currentPrice.n > 0
    /\ AtrPctBelow(1)
    /\ ~Bandwidth.isNaN /\ Bandwidth.n > 5
    /\ fn.summary.volatility = "high"

\* C17: trendStrength is strong when adx > 25, moderate when 15 < adx <= 25
\* and weak otherwise, ADX unavailable included; 25 gives moderate and 15
\* gives weak.
C17_TrendStrength ==
    fn.done =>
        fn.summary.trendStrength =
            IF Comparable(Lit.adx_14) /\ ValueOf(Lit.adx_14) > 25 THEN "strong"
            ELSE IF Comparable(Lit.adx_14) /\ ValueOf(Lit.adx_14) > 15
            THEN "moderate"
            ELSE "weak"

\* adx is exactly 25: moderate.
C17_Witness ==
    /\ fn.done
    /\ fn.op = "generateMicroSummary"
    /\ Comparable(Lit.adx_14)
    /\ ValueOf(Lit.adx_14) = 25
    /\ fn.summary.trendStrength = "moderate"

---------------------------------------------------------------------------
(* Properties of the resolvers (specification SpecConfig)                  *)

\* Neither a per-call override nor an environment URL is set.
NetworkDecides == trimmed(fn.override) = <<>> /\ trimmed(fn.envUrl) = <<>>

DevnetEndpoint ==
    IF fn.op = "resolveApiBaseUrl"
    THEN UrlConstant("https://api.devnet.o2.app")
    ELSE UrlConstant("https://devnet.fuel.network/v1/graphql")

MainnetEndpoint ==
    IF fn.op = "resolveApiBaseUrl"
    THEN UrlConstant("https://api.o2.app")
    ELSE UrlConstant("https://mainnet.fuel.network/v1/graphql")

\* C21: with no override and no environment URL, O2_NETWORK unset or
\* 'devnet' resolves to the devnet endpoint and 'mainnet' to the mainnet
\* endpoint; a per-call override is returned whatever the environment holds.
C21_NetworkSelection ==
    fn.done =>
        /\ (NetworkDecides
            /\ fn.envNetwork \in {NotGiven,
                                  GivenString(<<"d", "e", "v", "n", "e", "t">>)})
              => fn.url = DevnetEndpoint
        /\ (NetworkDecides
            /\ fn.envNetwork = GivenString(<<"m", "a", "i", "n", "n", "e", "t">>))
              => fn.url = MainnetEndpoint
        /\ trimmed(fn.override) # <<>> =>
              /\ fn.url.kind = "text"
              /\ fn.url.text \in {trimmed(fn.override),
                                  normalizeBaseUrl(trimmed(fn.override))}

---------------------------------------------------------------------------
(* Properties of the session store (specification SpecStore)               *)

\* A store with every sessionPrivateKey replaced by the same text.
Redacted(sessions) ==
    [k \in DOMAIN sessions |-> [sessions[k] EXCEPT !.sessionPrivateKey = "*"]]

\* C22: the response of o2_session_get and of o2_sessions_list is the one
\* the same call gives on the store with every session key replaced: it is
\* the same for two stores that differ only in their session keys.
C22_NoKeyInResponse ==
    /\ fn.answered.tool = "o2_session_get" =>
          fn.answered.response =
             o2SessionGet(Redacted(fn.answered.sessions), fn.answered.sessionId,
                          fn.answered.now)
    /\ fn.answered.tool = "o2_sessions_list" =>
          fn.answered.response =
             o2SessionsList(Redacted(fn.answered.sessions),
                            fn.answered.includeExpired, fn.answered.now)

\* o2_session_get has answered ok:true for a stored session.
C22_Witness ==
    /\ fn.op = "store"
    /\ fn.answered.tool = "o2_session_get"
    /\ fn.answered.response.ok
    /\ fn.answered.sessions[fn.answered.sessionId].sessionPrivateKey = "key2"

\* C30: when no saveSession is in progress, every sessionId a saveSession
\* has returned is in the store, with the session that call stored.
C30_NoSessionLost ==
    (fn.op = "store" /\ \A p \in Procs : fn.proc[p].pc = "idle") =>
        \A sessionId \in fn.returned :
            /\ sessionId \in DOMAIN fn.file
            /\ fn.file[sessionId] = fn.written[sessionId]

---------------------------------------------------------------------------
(* Properties of the orders placed (specification SpecOrders)              *)

\* C23: an order is submitted only for a request that gives exactly one
\* complete pair and nothing of the other pair: a request with both rawPrice
\* and price, with both rawQuantity and quantity, or with neither complete
\* pair is rejected and submits no order.
C23_ExclusivePairs ==
    (fn.last.made /\ fn.last.outcome.submitted) =>
        /\ ~(fn.last.params.rawPrice /\ fn.last.params.price)
        /\ ~(fn.last.params.rawQuantity /\ fn.last.params.quantity)
        /\ \/ fn.last.params.rawPrice /\ fn.last.params.rawQuantity
           \/ fn.last.params.price /\ fn.last.params.quantity

\* The unexpired sessions of the call's trade account in the store the call
\* found.
UnexpiredBefore ==
    {k \in DOMAIN fn.last.before :
        /\ fn.last.before[k].tradeAccountId = fn.last.params.tradeAccountId
        /\ fn.last.before[k].expiryMs.given
        /\ fn.last.before[k].expiryMs.n > fn.last.now}

\* C24: a call saves a session only when the store it finds holds no
\* unexpired session of the trade account; when it holds one the store is
\* left as it was and the signer's key is a stored one; and calls made within
\* the expiry time of the first call add at most one session.
C24_SessionReuse ==
    fn.last.made =>
        /\ fn.file # fn.last.before => UnexpiredBefore = {}
        /\ UnexpiredBefore # {} =>
              /\ fn.file = fn.last.before
              /\ fn.last.outcome.signer.origin # "none" =>
                    \E k \in DOMAIN fn.last.before :
                       fn.last.outcome.signer = fn.last.before[k].sessionPrivateKey
        /\ fn.clock - fn.firstCallAt < SessionExpiry => fn.added <= 1

\* A second order is submitted with the key of the session the first call
\* saved.
C24_Witness ==
    /\ fn.op = "orders"
    /\ fn.last.made
    /\ fn.calls >= 2
    /\ fn.added = 1
    /\ fn.last.outcome.submitted
    /\ fn.last.outcome.signer.origin = "generated"
    /\ fn.file = fn.last.before

---------------------------------------------------------------------------
(* Properties of executeWithRetry (specification SpecRetry)                *)

AllCalls == Requesters \cup {NestedCall}

\* The calls whose error handler is in progress.
Handling == {c \in AllCalls : fn.call[c].pc = "handling"}

\* C25: a call invokes buildAndExecute at most retries + 1 times; a call
\* that ends in an error throws the error of its last attempt and has not
\* called onSuccess; a call that returns has called onSuccess once.
C25_BoundedRetries ==
    \A c \in AllCalls :
        /\ fn.call[c].invocations <= Retries + 1
        /\ fn.call[c].invocations <= fn.call[c].attempt + 1
        /\ fn.call[c].pc = "returned" => fn.call[c].onSuccess = 1
        /\ fn.call[c].pc = "threw" =>
              /\ fn.call[c].onSuccess = 0
              /\ fn.call[c].thrown = fn.call[c].err

\* C26: at most one invocation of the error handler is in progress, and
\* isInErrorHandler is true exactly while one is.
C26_OneHandler ==
    /\ Cardinality(Handling) <= 1
    /\ fn.isInErrorHandler <=> Handling # {}

\* The handler of one request is in progress, inside its createSession
\* call, while the other request has failed and thrown.
C26_Witness ==
    /\ fn.op = "retry"
    /\ fn.isInErrorHandler
    /\ fn.call[1].pc = "handling"
    /\ fn.call[1].stage = "creating"
    /\ fn.call[NestedCall].pc = "threw"
    /\ fn.call[2].pc = "threw"

\* C27: a request that fails with an error the handler recovers from, with
\* retries left, is retried: it does not end by throwing that error.
C27_RecoveryKept ==
    \A c \in Requesters :
        (fn.call[c].pc = "threw" /\ fn.call[c].thrown \in {"nonce", "session"})
            => Retries - fn.call[c].attempt = 0


---------------------------------------------------------------------------
(* Properties of the decoded bars (specification Spec)                     *)

\* C28: whenever the invocation reaches the decoding of the bars and the
\* computation of the indicators, the sequence of bars is not empty, so every
\* ok:true snapshot reports bars >= 1 and a defined currentPrice, the close of
\* the last decoded bar; this holds for every answer of the provider, also for
\* one whose only bar is an incomplete trailing bar that is trimmed.
C28_BarsNonEmpty ==
    /\ pc = "computing" => Len(bars) >= 1
    /\ (Succeeded /\ req.mode = "snapshot") =>
          /\ response.payload.data.bars >= 1
          /\ response.payload.data.currentPrice # JsUndefined
          /\ response.payload.data.currentPrice = currentPriceOf(bars)


---------------------------------------------------------------------------
(* Properties of the tags of the summary (specification SpecSummary)       *)

HasTag(tag) == tag \in Range(fn.summary.inputs)

MinusLeads ==
    /\ Comparable(Lit.plus_di) /\ Comparable(Lit.minus_di)
    /\ ValueOf(Lit.plus_di) < ValueOf(Lit.minus_di)

AdxAbove(k) == Comparable(Lit.adx_14) /\ ValueOf(Lit.adx_14) > k
AdxBelow(k) == Comparable(Lit.adx_14) /\ ValueOf(Lit.adx_14) < k

\* Every tag in `inputs` states something true of the indicators.
TagsTrue ==
    /\ HasTag("price>sma20>sma50") => PriceAboveAverages
    /\ HasTag("price<sma20<sma50") => PriceBelowAverages
    /\ HasTag("+di>-di") => PlusLeads
    /\ HasTag("+di<-di") => MinusLeads
    /\ HasTag("adx>25") => AdxAbove(25)
    /\ HasTag("adx>15") => AdxAbove(15)
    /\ HasTag("adx<15") => AdxBelow(15)
    /\ (HasTag("macd_hist>0_rising") \/ HasTag("macd_hist<0_rising"))
          => (HistogramGiven /\ HistogramChange > 0)
    /\ (HasTag("macd_hist>0_falling") \/ HasTag("macd_hist<0_falling"))
          => (HistogramGiven /\ HistogramChange < 0)

\* Every rule that set or moved an axis left its tag.
TagsPresent ==
    /\ PriceAboveAverages => HasTag("price>sma20>sma50")
    /\ PriceBelowAverages => HasTag("price<sma20<sma50")
    /\ DIGiven => (HasTag("+di>-di") \/ HasTag("+di<-di"))
    /\ Given(Lit.adx_14)
          => (HasTag("adx>25") \/ HasTag("adx>15") \/ HasTag("adx<15"))
    /\ fn.summary.momentum # "neutral"
          => \E tag \in {"macd_hist>0_rising", "macd_hist>0_falling",
                         "macd_hist<0_rising", "macd_hist<0_falling"} :
                HasTag(tag)
    /\ fn.summary.volatility = "low" => HasTag("low_volatility")
    /\ fn.summary.volatility = "high" => HasTag("high_volatility")

\* C29: every tag generateMicroSummary appends to `inputs` is a true
\* statement about the indicators (the price orderings, '+di>-di' and
\* '+di<-di', the adx tags and the rising and falling tags of the histogram
\* each only under the strict comparison they name), and a tag is present
\* for each rule that changed or set an axis.
C29_TagsAreTrue ==
    fn.done => (TagsTrue /\ TagsPresent)

=============================================================================
